---------------------------- MODULE Spec2Model ----------------------------
(***************************************************************************)
(* Model of the iiko-bufet invoice reconciliation core:                    *)
(*   - the catalog exclusion builder and product-list filter               *)
(*     (bot/services/iiko_client.py),                                      *)
(*   - the table extractors of the PDF and spreadsheet adapters            *)
(*     (bot/services/pdf_parser.py, bot/services/excel_parser.py),         *)
(*   - the matching engine search_product (bot/services/iiko_client.py).   *)
(*                                                                         *)
(* Text is modelled as a sequence of Unicode code points (Python str), so  *)
(* lower(), strip(), split(), substring tests and the regular expressions  *)
(* of the source are computed character by character.                      *)
(***************************************************************************)
EXTENDS Integers, Sequences, FiniteSets, TLC

VARIABLES
    \* ---- catalog snapshot (IikoClient._parse_products_xml) ----
    dtos,          \* the productDto elements of the fetched XML, in document order
    allItems,      \* all_items: the dict built from them, in insertion order
    excluded,      \* the set returned by the last _build_excluded_ids
    scans,         \* scans of all_items the last _build_excluded_ids made
    prevExcluded,  \* the set returned by the run before the last one
    catProducts,   \* the product list returned by _parse_products_xml
    cphase,        \* "fetched" | "parsed" | "rebuilt" | "idle"
    \* ---- a document being parsed (parse_invoice_pdf, parse_excel) ----
    adapter,       \* "pdf" | "excel" | "idle"
    colIndices,    \* col_indices (PDF) or col (spreadsheet); NoColumns: None
    products,      \* the line items appended so far
    pstatus,       \* "running" | "returned" | "raised" | "idle"
    rowsRead,      \* rows of the document consumed
    hdrInTable,    \* a header row was detected in the current table
    itemsInTable,  \* line items appended from rows of the current table
    rowsClaimed,   \* rows after that header that C4 counts
    lastRow,       \* the row consumed last
    lastCol,       \* the column map it was read under
    lastKind,      \* what became of it
    \* ---- a call of IikoClient.search_product ----
    sProvider,     \* "stub" | "failing" | "ready" | "idle"
    sCatalog,      \* the product list get_products gives
    sQuery,        \* query
    sLimit,        \* limit
    sMinScore,     \* min_score
    sPhase,        \* "called" | "fuzzy" | "two" | "longest" | "fry" | "returned" | "raised" | "idle"
    sResult,       \* the list returned
    sScores,       \* the _score of each of its entries before it is dropped
    sStage,        \* the stage that gave the list
    sWords,        \* words
    sTried,        \* texts _search_in_products found nothing for
    \* ---- a call of IikoClient.match_supplier ----
    mName,         \* pdf_supplier_name
    mSuppliers,    \* suppliers
    mFuzz,         \* the scores the similarity library gave the suppliers
    mBest,         \* the supplier returned, NoSupplier: None
    mPhase,        \* "called" | "returned" | "idle"
    \* ---- the learned-mapping store (product_mappings) ----
    mapFile,       \* the file data/product_mappings.json
    stBefore,      \* the file before the last call
    stCall,        \* the last call of the store and what the file system did to it
    stRaised,      \* the last call left by an exception
    stResult,      \* what get_mapping returned, NoMapping: None
    \* ---- the dialog (handlers/document.py, handlers/confirm.py) ----
    fProvider,     \* "stub" | "ready" | "idle": whether IikoClient is configured
    fReadOnly,     \* IIKO_READ_ONLY
    fCatalog,      \* the products get_products of a configured client gives now
    fStore,        \* the file data/product_mappings.json
    fData,         \* context.user_data of each user
    fLast,         \* the handler that ran last and what it did
    \* ---- one call of _search_in_products (IikoClient._search_in_products) ----
    rProducts,     \* products: the list given to _search_in_products
    rQuery,        \* query_lower
    rLimit,        \* limit
    rMinScore,     \* min_score
    rFuzz,         \* the values of the similarity library, one for each product
    rRanked,       \* matches after the sort, before the cut
    rResult,       \* the list returned
    rPhase,        \* "called" | "returned" | "idle"
    \* ---- one document given to both adapters (parse_invoice_pdf, parse_excel) ----
    xRows,         \* the rows of a document: one table of one page, or one sheet
    xPdf,          \* what parse_invoice_pdf gives for them, NotRun before
    xExcel,        \* what parse_excel gives for them, NotRun before
    \* ---- the dialog with a file system that fails (history of the sessions) ----
    fDone          \* history: per user, whether the supply of the last document was created or cancelled and no document has been processed since

catVars == <<dtos, allItems, excluded, scans, prevExcluded, catProducts, cphase>>

parseVars == <<adapter, colIndices, products, pstatus, rowsRead, hdrInTable, itemsInTable,
               rowsClaimed, lastRow, lastCol, lastKind>>

searchVars == <<sProvider, sCatalog, sQuery, sLimit, sMinScore, sPhase, sResult, sScores,
                sStage, sWords, sTried>>

supplierVars == <<mName, mSuppliers, mFuzz, mBest, mPhase>>

storeVars == <<mapFile, stBefore, stCall, stRaised, stResult>>

flowVars == <<fProvider, fReadOnly, fCatalog, fStore, fData, fLast>>

rankVars == <<rProducts, rQuery, rLimit, rMinScore, rFuzz, rRanked, rResult, rPhase>>

pairVars == <<xRows, xPdf, xExcel>>

histVars == <<fDone>>

vars == <<catVars, parseVars, searchVars, supplierVars, storeVars, flowVars, rankVars, pairVars, histVars>>

-----------------------------------------------------------------------------
(* Bounds of the model *)

\* items of a freely shaped catalog snapshot (every parentId assignment)
MaxItems == 3
\* items of the deep single-branch snapshot: one excluded group and its line
\* of descendants
ChainLen == 22

-----------------------------------------------------------------------------
(* Python str operations on sequences of code points *)

NoneVal == <<-1>>      \* Python None where a text is expected

\* the characters of str.isspace()
WhiteSpace ==
    { 9, 10, 11, 12, 13, 28, 29, 30, 31, 32, 133, 160, 5760, 8192, 8193, 8194,
      8195, 8196, 8197, 8198, 8199, 8200, 8201, 8202, 8232, 8233, 8239, 8287,
      12288 }

\* the ranges of the characters from 128 on that str.isalnum() holds of, which
\* are the characters from 128 on that \w of a regular expression matches:
\* the first and the last character of each range, one range after the other
WordRanges ==
    << 170, 170, 178, 179, 181, 181, 185, 186, 188, 190, 192, 214, 216, 246, 248, 705,
      710, 721, 736, 740, 748, 748, 750, 750, 880, 884, 886, 887, 890, 893, 895, 895,
      902, 902, 904, 906, 908, 908, 910, 929, 931, 1013, 1015, 1153, 1162, 1327,
      1329, 1366, 1369, 1369, 1376, 1416, 1488, 1514, 1519, 1522, 1568, 1610,
      1632, 1641, 1646, 1647, 1649, 1747, 1749, 1749, 1765, 1766, 1774, 1788,
      1791, 1791, 1808, 1808, 1810, 1839, 1869, 1957, 1969, 1969, 1984, 2026,
      2036, 2037, 2042, 2042, 2048, 2069, 2074, 2074, 2084, 2084, 2088, 2088,
      2112, 2136, 2144, 2154, 2160, 2183, 2185, 2190, 2208, 2249, 2308, 2361,
      2365, 2365, 2384, 2384, 2392, 2401, 2406, 2415, 2417, 2432, 2437, 2444,
      2447, 2448, 2451, 2472, 2474, 2480, 2482, 2482, 2486, 2489, 2493, 2493,
      2510, 2510, 2524, 2525, 2527, 2529, 2534, 2545, 2548, 2553, 2556, 2556,
      2565, 2570, 2575, 2576, 2579, 2600, 2602, 2608, 2610, 2611, 2613, 2614,
      2616, 2617, 2649, 2652, 2654, 2654, 2662, 2671, 2674, 2676, 2693, 2701,
      2703, 2705, 2707, 2728, 2730, 2736, 2738, 2739, 2741, 2745, 2749, 2749,
      2768, 2768, 2784, 2785, 2790, 2799, 2809, 2809, 2821, 2828, 2831, 2832,
      2835, 2856, 2858, 2864, 2866, 2867, 2869, 2873, 2877, 2877, 2908, 2909,
      2911, 2913, 2918, 2927, 2929, 2935, 2947, 2947, 2949, 2954, 2958, 2960,
      2962, 2965, 2969, 2970, 2972, 2972, 2974, 2975, 2979, 2980, 2984, 2986,
      2990, 3001, 3024, 3024, 3046, 3058, 3077, 3084, 3086, 3088, 3090, 3112,
      3114, 3129, 3133, 3133, 3160, 3162, 3165, 3165, 3168, 3169, 3174, 3183,
      3192, 3198, 3200, 3200, 3205, 3212, 3214, 3216, 3218, 3240, 3242, 3251,
      3253, 3257, 3261, 3261, 3293, 3294, 3296, 3297, 3302, 3311, 3313, 3314,
      3332, 3340, 3342, 3344, 3346, 3386, 3389, 3389, 3406, 3406, 3412, 3414,
      3416, 3425, 3430, 3448, 3450, 3455, 3461, 3478, 3482, 3505, 3507, 3515,
      3517, 3517, 3520, 3526, 3558, 3567, 3585, 3632, 3634, 3635, 3648, 3654,
      3664, 3673, 3713, 3714, 3716, 3716, 3718, 3722, 3724, 3747, 3749, 3749,
      3751, 3760, 3762, 3763, 3773, 3773, 3776, 3780, 3782, 3782, 3792, 3801,
      3804, 3807, 3840, 3840, 3872, 3891, 3904, 3911, 3913, 3948, 3976, 3980,
      4096, 4138, 4159, 4169, 4176, 4181, 4186, 4189, 4193, 4193, 4197, 4198,
      4206, 4208, 4213, 4225, 4238, 4238, 4240, 4249, 4256, 4293, 4295, 4295,
      4301, 4301, 4304, 4346, 4348, 4680, 4682, 4685, 4688, 4694, 4696, 4696,
      4698, 4701, 4704, 4744, 4746, 4749, 4752, 4784, 4786, 4789, 4792, 4798,
      4800, 4800, 4802, 4805, 4808, 4822, 4824, 4880, 4882, 4885, 4888, 4954,
      4969, 4988, 4992, 5007, 5024, 5109, 5112, 5117, 5121, 5740, 5743, 5759,
      5761, 5786, 5792, 5866, 5870, 5880, 5888, 5905, 5919, 5937, 5952, 5969,
      5984, 5996, 5998, 6000, 6016, 6067, 6103, 6103, 6108, 6108, 6112, 6121,
      6128, 6137, 6160, 6169, 6176, 6264, 6272, 6276, 6279, 6312, 6314, 6314,
      6320, 6389, 6400, 6430, 6470, 6509, 6512, 6516, 6528, 6571, 6576, 6601,
      6608, 6618, 6656, 6678, 6688, 6740, 6784, 6793, 6800, 6809, 6823, 6823,
      6917, 6963, 6981, 6988, 6992, 7001, 7043, 7072, 7086, 7141, 7168, 7203,
      7232, 7241, 7245, 7293, 7296, 7304, 7312, 7354, 7357, 7359, 7401, 7404,
      7406, 7411, 7413, 7414, 7418, 7418, 7424, 7615, 7680, 7957, 7960, 7965,
      7968, 8005, 8008, 8013, 8016, 8023, 8025, 8025, 8027, 8027, 8029, 8029,
      8031, 8061, 8064, 8116, 8118, 8124, 8126, 8126, 8130, 8132, 8134, 8140,
      8144, 8147, 8150, 8155, 8160, 8172, 8178, 8180, 8182, 8188, 8304, 8305,
      8308, 8313, 8319, 8329, 8336, 8348, 8450, 8450, 8455, 8455, 8458, 8467,
      8469, 8469, 8473, 8477, 8484, 8484, 8486, 8486, 8488, 8488, 8490, 8493,
      8495, 8505, 8508, 8511, 8517, 8521, 8526, 8526, 8528, 8585, 9312, 9371,
      9450, 9471, 10102, 10131, 11264, 11492, 11499, 11502, 11506, 11507,
      11517, 11517, 11520, 11557, 11559, 11559, 11565, 11565, 11568, 11623,
      11631, 11631, 11648, 11670, 11680, 11686, 11688, 11694, 11696, 11702,
      11704, 11710, 11712, 11718, 11720, 11726, 11728, 11734, 11736, 11742,
      11823, 11823, 12293, 12295, 12321, 12329, 12337, 12341, 12344, 12348,
      12353, 12438, 12445, 12447, 12449, 12538, 12540, 12543, 12549, 12591,
      12593, 12686, 12690, 12693, 12704, 12735, 12784, 12799, 12832, 12841,
      12872, 12879, 12881, 12895, 12928, 12937, 12977, 12991, 13312, 19903,
      19968, 42124, 42192, 42237, 42240, 42508, 42512, 42539, 42560, 42606,
      42623, 42653, 42656, 42735, 42775, 42783, 42786, 42888, 42891, 42954,
      42960, 42961, 42963, 42963, 42965, 42969, 42994, 43009, 43011, 43013,
      43015, 43018, 43020, 43042, 43056, 43061, 43072, 43123, 43138, 43187,
      43216, 43225, 43250, 43255, 43259, 43259, 43261, 43262, 43264, 43301,
      43312, 43334, 43360, 43388, 43396, 43442, 43471, 43481, 43488, 43492,
      43494, 43518, 43520, 43560, 43584, 43586, 43588, 43595, 43600, 43609,
      43616, 43638, 43642, 43642, 43646, 43695, 43697, 43697, 43701, 43702,
      43705, 43709, 43712, 43712, 43714, 43714, 43739, 43741, 43744, 43754,
      43762, 43764, 43777, 43782, 43785, 43790, 43793, 43798, 43808, 43814,
      43816, 43822, 43824, 43866, 43868, 43881, 43888, 44002, 44016, 44025,
      44032, 55203, 55216, 55238, 55243, 55291, 63744, 64109, 64112, 64217,
      64256, 64262, 64275, 64279, 64285, 64285, 64287, 64296, 64298, 64310,
      64312, 64316, 64318, 64318, 64320, 64321, 64323, 64324, 64326, 64433,
      64467, 64829, 64848, 64911, 64914, 64967, 65008, 65019, 65136, 65140,
      65142, 65276, 65296, 65305, 65313, 65338, 65345, 65370, 65382, 65470,
      65474, 65479, 65482, 65487, 65490, 65495, 65498, 65500, 65536, 65547,
      65549, 65574, 65576, 65594, 65596, 65597, 65599, 65613, 65616, 65629,
      65664, 65786, 65799, 65843, 65856, 65912, 65930, 65931, 66176, 66204,
      66208, 66256, 66273, 66299, 66304, 66339, 66349, 66378, 66384, 66421,
      66432, 66461, 66464, 66499, 66504, 66511, 66513, 66517, 66560, 66717,
      66720, 66729, 66736, 66771, 66776, 66811, 66816, 66855, 66864, 66915,
      66928, 66938, 66940, 66954, 66956, 66962, 66964, 66965, 66967, 66977,
      66979, 66993, 66995, 67001, 67003, 67004, 67072, 67382, 67392, 67413,
      67424, 67431, 67456, 67461, 67463, 67504, 67506, 67514, 67584, 67589,
      67592, 67592, 67594, 67637, 67639, 67640, 67644, 67644, 67647, 67669,
      67672, 67702, 67705, 67742, 67751, 67759, 67808, 67826, 67828, 67829,
      67835, 67867, 67872, 67897, 67968, 68023, 68028, 68047, 68050, 68096,
      68112, 68115, 68117, 68119, 68121, 68149, 68160, 68168, 68192, 68222,
      68224, 68255, 68288, 68295, 68297, 68324, 68331, 68335, 68352, 68405,
      68416, 68437, 68440, 68466, 68472, 68497, 68521, 68527, 68608, 68680,
      68736, 68786, 68800, 68850, 68858, 68899, 68912, 68921, 69216, 69246,
      69248, 69289, 69296, 69297, 69376, 69415, 69424, 69445, 69457, 69460,
      69488, 69505, 69552, 69579, 69600, 69622, 69635, 69687, 69714, 69743,
      69745, 69746, 69749, 69749, 69763, 69807, 69840, 69864, 69872, 69881,
      69891, 69926, 69942, 69951, 69956, 69956, 69959, 69959, 69968, 70002,
      70006, 70006, 70019, 70066, 70081, 70084, 70096, 70106, 70108, 70108,
      70113, 70132, 70144, 70161, 70163, 70187, 70272, 70278, 70280, 70280,
      70282, 70285, 70287, 70301, 70303, 70312, 70320, 70366, 70384, 70393,
      70405, 70412, 70415, 70416, 70419, 70440, 70442, 70448, 70450, 70451,
      70453, 70457, 70461, 70461, 70480, 70480, 70493, 70497, 70656, 70708,
      70727, 70730, 70736, 70745, 70751, 70753, 70784, 70831, 70852, 70853,
      70855, 70855, 70864, 70873, 71040, 71086, 71128, 71131, 71168, 71215,
      71236, 71236, 71248, 71257, 71296, 71338, 71352, 71352, 71360, 71369,
      71424, 71450, 71472, 71483, 71488, 71494, 71680, 71723, 71840, 71922,
      71935, 71942, 71945, 71945, 71948, 71955, 71957, 71958, 71960, 71983,
      71999, 71999, 72001, 72001, 72016, 72025, 72096, 72103, 72106, 72144,
      72161, 72161, 72163, 72163, 72192, 72192, 72203, 72242, 72250, 72250,
      72272, 72272, 72284, 72329, 72349, 72349, 72368, 72440, 72704, 72712,
      72714, 72750, 72768, 72768, 72784, 72812, 72818, 72847, 72960, 72966,
      72968, 72969, 72971, 73008, 73030, 73030, 73040, 73049, 73056, 73061,
      73063, 73064, 73066, 73097, 73112, 73112, 73120, 73129, 73440, 73458,
      73648, 73648, 73664, 73684, 73728, 74649, 74752, 74862, 74880, 75075,
      77712, 77808, 77824, 78894, 82944, 83526, 92160, 92728, 92736, 92766,
      92768, 92777, 92784, 92862, 92864, 92873, 92880, 92909, 92928, 92975,
      92992, 92995, 93008, 93017, 93019, 93025, 93027, 93047, 93053, 93071,
      93760, 93846, 93952, 94026, 94032, 94032, 94099, 94111, 94176, 94177,
      94179, 94179, 94208, 100343, 100352, 101589, 101632, 101640, 110576, 110579,
      110581, 110587, 110589, 110590, 110592, 110882, 110928, 110930, 110948, 110951,
      110960, 111355, 113664, 113770, 113776, 113788, 113792, 113800, 113808, 113817,
      119520, 119539, 119648, 119672, 119808, 119892, 119894, 119964, 119966, 119967,
      119970, 119970, 119973, 119974, 119977, 119980, 119982, 119993, 119995, 119995,
      119997, 120003, 120005, 120069, 120071, 120074, 120077, 120084, 120086, 120092,
      120094, 120121, 120123, 120126, 120128, 120132, 120134, 120134, 120138, 120144,
      120146, 120485, 120488, 120512, 120514, 120538, 120540, 120570, 120572, 120596,
      120598, 120628, 120630, 120654, 120656, 120686, 120688, 120712, 120714, 120744,
      120746, 120770, 120772, 120779, 120782, 120831, 122624, 122654, 123136, 123180,
      123191, 123197, 123200, 123209, 123214, 123214, 123536, 123565, 123584, 123627,
      123632, 123641, 124896, 124902, 124904, 124907, 124909, 124910, 124912, 124926,
      124928, 125124, 125127, 125135, 125184, 125251, 125259, 125259, 125264, 125273,
      126065, 126123, 126125, 126127, 126129, 126132, 126209, 126253, 126255, 126269,
      126464, 126467, 126469, 126495, 126497, 126498, 126500, 126500, 126503, 126503,
      126505, 126514, 126516, 126519, 126521, 126521, 126523, 126523, 126530, 126530,
      126535, 126535, 126537, 126537, 126539, 126539, 126541, 126543, 126545, 126546,
      126548, 126548, 126551, 126551, 126553, 126553, 126555, 126555, 126557, 126557,
      126559, 126559, 126561, 126562, 126564, 126564, 126567, 126570, 126572, 126578,
      126580, 126583, 126585, 126588, 126590, 126590, 126592, 126601, 126603, 126619,
      126625, 126627, 126629, 126633, 126635, 126651, 127232, 127244, 130032, 130041,
      131072, 173791, 173824, 177976, 177984, 178205, 178208, 183969, 183984, 191456,
      194560, 195101, 196608, 201546 >>

\* str.lower() of one character from 128 on, but for U+0130: the rows lo, hi,
\* step, to, one after the other, where a row gives to + (c - lo) for the
\* characters c = lo, lo + step, .., hi
LowerTable ==
    << 192, 214, 1, 224, 216, 222, 1, 248, 256, 302, 2, 257, 306, 310, 2, 307,
      313, 327, 2, 314, 330, 374, 2, 331, 376, 376, 1, 255, 377, 381, 2, 378,
      385, 385, 1, 595, 386, 388, 2, 387, 390, 390, 1, 596, 391, 391, 1, 392,
      393, 394, 1, 598, 395, 395, 1, 396, 398, 398, 1, 477, 399, 399, 1, 601,
      400, 400, 1, 603, 401, 401, 1, 402, 403, 403, 1, 608, 404, 404, 1, 611,
      406, 406, 1, 617, 407, 407, 1, 616, 408, 408, 1, 409, 412, 412, 1, 623,
      413, 413, 1, 626, 415, 415, 1, 629, 416, 420, 2, 417, 422, 422, 1, 640,
      423, 423, 1, 424, 425, 425, 1, 643, 428, 428, 1, 429, 430, 430, 1, 648,
      431, 431, 1, 432, 433, 434, 1, 650, 435, 437, 2, 436, 439, 439, 1, 658,
      440, 440, 1, 441, 444, 444, 1, 445, 452, 452, 1, 454, 453, 453, 1, 454,
      455, 455, 1, 457, 456, 456, 1, 457, 458, 458, 1, 460, 459, 475, 2, 460,
      478, 494, 2, 479, 497, 497, 1, 499, 498, 500, 2, 499, 502, 502, 1, 405,
      503, 503, 1, 447, 504, 542, 2, 505, 544, 544, 1, 414, 546, 562, 2, 547,
      570, 570, 1, 11365, 571, 571, 1, 572, 573, 573, 1, 410, 574, 574, 1, 11366,
      577, 577, 1, 578, 579, 579, 1, 384, 580, 580, 1, 649, 581, 581, 1, 652,
      582, 590, 2, 583, 880, 882, 2, 881, 886, 886, 1, 887, 895, 895, 1, 1011,
      902, 902, 1, 940, 904, 906, 1, 941, 908, 908, 1, 972, 910, 911, 1, 973,
      913, 929, 1, 945, 931, 939, 1, 963, 975, 975, 1, 983, 984, 1006, 2, 985,
      1012, 1012, 1, 952, 1015, 1015, 1, 1016, 1017, 1017, 1, 1010,
      1018, 1018, 1, 1019, 1021, 1023, 1, 891, 1024, 1039, 1, 1104,
      1040, 1071, 1, 1072, 1120, 1152, 2, 1121, 1162, 1214, 2, 1163,
      1216, 1216, 1, 1231, 1217, 1229, 2, 1218, 1232, 1326, 2, 1233,
      1329, 1366, 1, 1377, 4256, 4293, 1, 11520, 4295, 4295, 1, 11559,
      4301, 4301, 1, 11565, 5024, 5103, 1, 43888, 5104, 5109, 1, 5112,
      7312, 7354, 1, 4304, 7357, 7359, 1, 4349, 7680, 7828, 2, 7681,
      7838, 7838, 1, 223, 7840, 7934, 2, 7841, 7944, 7951, 1, 7936,
      7960, 7965, 1, 7952, 7976, 7983, 1, 7968, 7992, 7999, 1, 7984,
      8008, 8013, 1, 8000, 8025, 8031, 2, 8017, 8040, 8047, 1, 8032,
      8072, 8079, 1, 8064, 8088, 8095, 1, 8080, 8104, 8111, 1, 8096,
      8120, 8121, 1, 8112, 8122, 8123, 1, 8048, 8124, 8124, 1, 8115,
      8136, 8139, 1, 8050, 8140, 8140, 1, 8131, 8152, 8153, 1, 8144,
      8154, 8155, 1, 8054, 8168, 8169, 1, 8160, 8170, 8171, 1, 8058,
      8172, 8172, 1, 8165, 8184, 8185, 1, 8056, 8186, 8187, 1, 8060,
      8188, 8188, 1, 8179, 8486, 8486, 1, 969, 8490, 8490, 1, 107, 8491, 8491, 1, 229,
      8498, 8498, 1, 8526, 8544, 8559, 1, 8560, 8579, 8579, 1, 8580,
      9398, 9423, 1, 9424, 11264, 11311, 1, 11312, 11360, 11360, 1, 11361,
      11362, 11362, 1, 619, 11363, 11363, 1, 7549, 11364, 11364, 1, 637,
      11367, 11371, 2, 11368, 11373, 11373, 1, 593, 11374, 11374, 1, 625,
      11375, 11375, 1, 592, 11376, 11376, 1, 594, 11378, 11378, 1, 11379,
      11381, 11381, 1, 11382, 11390, 11391, 1, 575, 11392, 11490, 2, 11393,
      11499, 11501, 2, 11500, 11506, 11506, 1, 11507, 42560, 42604, 2, 42561,
      42624, 42650, 2, 42625, 42786, 42798, 2, 42787, 42802, 42862, 2, 42803,
      42873, 42875, 2, 42874, 42877, 42877, 1, 7545, 42878, 42886, 2, 42879,
      42891, 42891, 1, 42892, 42893, 42893, 1, 613, 42896, 42898, 2, 42897,
      42902, 42920, 2, 42903, 42922, 42922, 1, 614, 42923, 42923, 1, 604,
      42924, 42924, 1, 609, 42925, 42925, 1, 620, 42926, 42926, 1, 618,
      42928, 42928, 1, 670, 42929, 42929, 1, 647, 42930, 42930, 1, 669,
      42931, 42931, 1, 43859, 42932, 42946, 2, 42933, 42948, 42948, 1, 42900,
      42949, 42949, 1, 642, 42950, 42950, 1, 7566, 42951, 42953, 2, 42952,
      42960, 42960, 1, 42961, 42966, 42968, 2, 42967, 42997, 42997, 1, 42998,
      65313, 65338, 1, 65345, 66560, 66599, 1, 66600, 66736, 66771, 1, 66776,
      66928, 66938, 1, 66967, 66940, 66954, 1, 66979, 66956, 66962, 1, 66995,
      66964, 66965, 1, 67003, 68736, 68786, 1, 68800, 71840, 71871, 1, 71872,
      93760, 93791, 1, 93792, 125184, 125217, 1, 125218 >>

\* the ranges of the characters that str.lower() passes over when it looks
\* for the letters around a capital sigma (the property Case_Ignorable), as
\* the first and the last character of each range
CaseIgnorableRanges ==
    << 39, 39, 46, 46, 58, 58, 94, 94, 96, 96, 168, 168, 173, 173, 175, 175, 180, 180,
      183, 184, 688, 879, 884, 885, 890, 890, 900, 901, 903, 903, 1155, 1161,
      1369, 1369, 1375, 1375, 1425, 1469, 1471, 1471, 1473, 1474, 1476, 1477,
      1479, 1479, 1524, 1524, 1536, 1541, 1552, 1562, 1564, 1564, 1600, 1600,
      1611, 1631, 1648, 1648, 1750, 1757, 1759, 1768, 1770, 1773, 1807, 1807,
      1809, 1809, 1840, 1866, 1958, 1968, 2027, 2037, 2042, 2042, 2045, 2045,
      2070, 2093, 2137, 2139, 2184, 2184, 2192, 2193, 2200, 2207, 2249, 2306,
      2362, 2362, 2364, 2364, 2369, 2376, 2381, 2381, 2385, 2391, 2402, 2403,
      2417, 2417, 2433, 2433, 2492, 2492, 2497, 2500, 2509, 2509, 2530, 2531,
      2558, 2558, 2561, 2562, 2620, 2620, 2625, 2626, 2631, 2632, 2635, 2637,
      2641, 2641, 2672, 2673, 2677, 2677, 2689, 2690, 2748, 2748, 2753, 2757,
      2759, 2760, 2765, 2765, 2786, 2787, 2810, 2815, 2817, 2817, 2876, 2876,
      2879, 2879, 2881, 2884, 2893, 2893, 2901, 2902, 2914, 2915, 2946, 2946,
      3008, 3008, 3021, 3021, 3072, 3072, 3076, 3076, 3132, 3132, 3134, 3136,
      3142, 3144, 3146, 3149, 3157, 3158, 3170, 3171, 3201, 3201, 3260, 3260,
      3263, 3263, 3270, 3270, 3276, 3277, 3298, 3299, 3328, 3329, 3387, 3388,
      3393, 3396, 3405, 3405, 3426, 3427, 3457, 3457, 3530, 3530, 3538, 3540,
      3542, 3542, 3633, 3633, 3636, 3642, 3654, 3662, 3761, 3761, 3764, 3772,
      3782, 3782, 3784, 3789, 3864, 3865, 3893, 3893, 3895, 3895, 3897, 3897,
      3953, 3966, 3968, 3972, 3974, 3975, 3981, 3991, 3993, 4028, 4038, 4038,
      4141, 4144, 4146, 4151, 4153, 4154, 4157, 4158, 4184, 4185, 4190, 4192,
      4209, 4212, 4226, 4226, 4229, 4230, 4237, 4237, 4253, 4253, 4348, 4348,
      4957, 4959, 5906, 5908, 5938, 5939, 5970, 5971, 6002, 6003, 6068, 6069,
      6071, 6077, 6086, 6086, 6089, 6099, 6103, 6103, 6109, 6109, 6155, 6159,
      6211, 6211, 6277, 6278, 6313, 6313, 6432, 6434, 6439, 6440, 6450, 6450,
      6457, 6459, 6679, 6680, 6683, 6683, 6742, 6742, 6744, 6750, 6752, 6752,
      6754, 6754, 6757, 6764, 6771, 6780, 6783, 6783, 6823, 6823, 6832, 6862,
      6912, 6915, 6964, 6964, 6966, 6970, 6972, 6972, 6978, 6978, 7019, 7027,
      7040, 7041, 7074, 7077, 7080, 7081, 7083, 7085, 7142, 7142, 7144, 7145,
      7149, 7149, 7151, 7153, 7212, 7219, 7222, 7223, 7288, 7293, 7376, 7378,
      7380, 7392, 7394, 7400, 7405, 7405, 7412, 7412, 7416, 7417, 7468, 7530,
      7544, 7544, 7579, 7679, 8125, 8125, 8127, 8129, 8141, 8143, 8157, 8159,
      8173, 8175, 8189, 8190, 8203, 8207, 8216, 8217, 8228, 8228, 8231, 8231,
      8234, 8238, 8288, 8292, 8294, 8303, 8305, 8305, 8319, 8319, 8336, 8348,
      8400, 8432, 11388, 11389, 11503, 11505, 11631, 11631, 11647, 11647,
      11744, 11775, 11823, 11823, 12293, 12293, 12330, 12333, 12337, 12341,
      12347, 12347, 12441, 12446, 12540, 12542, 40981, 40981, 42232, 42237,
      42508, 42508, 42607, 42610, 42612, 42621, 42623, 42623, 42652, 42655,
      42736, 42737, 42752, 42785, 42864, 42864, 42888, 42890, 42994, 42996,
      43000, 43001, 43010, 43010, 43014, 43014, 43019, 43019, 43045, 43046,
      43052, 43052, 43204, 43205, 43232, 43249, 43263, 43263, 43302, 43309,
      43335, 43345, 43392, 43394, 43443, 43443, 43446, 43449, 43452, 43453,
      43471, 43471, 43493, 43494, 43561, 43566, 43569, 43570, 43573, 43574,
      43587, 43587, 43596, 43596, 43632, 43632, 43644, 43644, 43696, 43696,
      43698, 43700, 43703, 43704, 43710, 43711, 43713, 43713, 43741, 43741,
      43756, 43757, 43763, 43764, 43766, 43766, 43867, 43871, 43881, 43883,
      44005, 44005, 44008, 44008, 44013, 44013, 64286, 64286, 64434, 64450,
      65024, 65039, 65043, 65043, 65056, 65071, 65106, 65106, 65109, 65109,
      65279, 65279, 65287, 65287, 65294, 65294, 65306, 65306, 65342, 65342,
      65344, 65344, 65392, 65392, 65438, 65439, 65507, 65507, 65529, 65531,
      66045, 66045, 66272, 66272, 66422, 66426, 67456, 67461, 67463, 67504,
      67506, 67514, 68097, 68099, 68101, 68102, 68108, 68111, 68152, 68154,
      68159, 68159, 68325, 68326, 68900, 68903, 69291, 69292, 69446, 69456,
      69506, 69509, 69633, 69633, 69688, 69702, 69744, 69744, 69747, 69748,
      69759, 69761, 69811, 69814, 69817, 69818, 69821, 69821, 69826, 69826,
      69837, 69837, 69888, 69890, 69927, 69931, 69933, 69940, 70003, 70003,
      70016, 70017, 70070, 70078, 70089, 70092, 70095, 70095, 70191, 70193,
      70196, 70196, 70198, 70199, 70206, 70206, 70367, 70367, 70371, 70378,
      70400, 70401, 70459, 70460, 70464, 70464, 70502, 70508, 70512, 70516,
      70712, 70719, 70722, 70724, 70726, 70726, 70750, 70750, 70835, 70840,
      70842, 70842, 70847, 70848, 70850, 70851, 71090, 71093, 71100, 71101,
      71103, 71104, 71132, 71133, 71219, 71226, 71229, 71229, 71231, 71232,
      71339, 71339, 71341, 71341, 71344, 71349, 71351, 71351, 71453, 71455,
      71458, 71461, 71463, 71467, 71727, 71735, 71737, 71738, 71995, 71996,
      71998, 71998, 72003, 72003, 72148, 72151, 72154, 72155, 72160, 72160,
      72193, 72202, 72243, 72248, 72251, 72254, 72263, 72263, 72273, 72278,
      72281, 72283, 72330, 72342, 72344, 72345, 72752, 72758, 72760, 72765,
      72767, 72767, 72850, 72871, 72874, 72880, 72882, 72883, 72885, 72886,
      73009, 73014, 73018, 73018, 73020, 73021, 73023, 73029, 73031, 73031,
      73104, 73105, 73109, 73109, 73111, 73111, 73459, 73460, 78896, 78904,
      92912, 92916, 92976, 92982, 92992, 92995, 94031, 94031, 94095, 94111,
      94176, 94177, 94179, 94180, 110576, 110579, 110581, 110587, 110589, 110590,
      113821, 113822, 113824, 113827, 118528, 118573, 118576, 118598, 119143, 119145,
      119155, 119170, 119173, 119179, 119210, 119213, 119362, 119364, 121344, 121398,
      121403, 121452, 121461, 121461, 121476, 121476, 121499, 121503, 121505, 121519,
      122880, 122886, 122888, 122904, 122907, 122913, 122915, 122916, 122918, 122922,
      123184, 123197, 123566, 123566, 123628, 123631, 125136, 125142, 125252, 125259,
      127995, 127999, 917505, 917505, 917536, 917631, 917760, 917999 >>

\* the ranges of the other characters that are letters with a case (the
\* property Cased), as the first and the last character of each range
CasedRanges ==
    << 65, 90, 97, 122, 170, 170, 181, 181, 186, 186, 192, 214, 216, 246, 248, 442,
      444, 447, 452, 659, 661, 687, 880, 883, 886, 887, 891, 893, 895, 895, 902, 902,
      904, 906, 908, 908, 910, 929, 931, 1013, 1015, 1153, 1162, 1327, 1329, 1366,
      1376, 1416, 4256, 4293, 4295, 4295, 4301, 4301, 4304, 4346, 4349, 4351,
      5024, 5109, 5112, 5117, 7296, 7304, 7312, 7354, 7357, 7359, 7424, 7467,
      7531, 7543, 7545, 7578, 7680, 7957, 7960, 7965, 7968, 8005, 8008, 8013,
      8016, 8023, 8025, 8025, 8027, 8027, 8029, 8029, 8031, 8061, 8064, 8116,
      8118, 8124, 8126, 8126, 8130, 8132, 8134, 8140, 8144, 8147, 8150, 8155,
      8160, 8172, 8178, 8180, 8182, 8188, 8450, 8450, 8455, 8455, 8458, 8467,
      8469, 8469, 8473, 8477, 8484, 8484, 8486, 8486, 8488, 8488, 8490, 8493,
      8495, 8500, 8505, 8505, 8508, 8511, 8517, 8521, 8526, 8526, 8544, 8575,
      8579, 8580, 9398, 9449, 11264, 11387, 11390, 11492, 11499, 11502, 11506, 11507,
      11520, 11557, 11559, 11559, 11565, 11565, 42560, 42605, 42624, 42651,
      42786, 42863, 42865, 42887, 42891, 42894, 42896, 42954, 42960, 42961,
      42963, 42963, 42965, 42969, 42997, 42998, 43002, 43002, 43824, 43866,
      43872, 43880, 43888, 43967, 64256, 64262, 64275, 64279, 65313, 65338,
      65345, 65370, 66560, 66639, 66736, 66771, 66776, 66811, 66928, 66938,
      66940, 66954, 66956, 66962, 66964, 66965, 66967, 66977, 66979, 66993,
      66995, 67001, 67003, 67004, 68736, 68786, 68800, 68850, 71840, 71903,
      93760, 93823, 119808, 119892, 119894, 119964, 119966, 119967, 119970, 119970,
      119973, 119974, 119977, 119980, 119982, 119993, 119995, 119995, 119997, 120003,
      120005, 120069, 120071, 120074, 120077, 120084, 120086, 120092, 120094, 120121,
      120123, 120126, 120128, 120132, 120134, 120134, 120138, 120144, 120146, 120485,
      120488, 120512, 120514, 120538, 120540, 120570, 120572, 120596, 120598, 120628,
      120630, 120654, 120656, 120686, 120688, 120712, 120714, 120744, 120746, 120770,
      120772, 120779, 122624, 122633, 122635, 122654, 125184, 125251, 127280, 127305,
      127312, 127337, 127344, 127369 >>

InRanges(c, rs) == \E j \in 1..(Len(rs) \div 2) : rs[2 * j - 1] <= c /\ c <= rs[2 * j]

\* the row j of the table t holds the character c
InLowerRow(c, t, j) ==
    /\ t[4 * j - 3] <= c /\ c <= t[4 * j - 2]
    /\ (c - t[4 * j - 3]) % t[4 * j - 1] = 0

\* what the table t gives for the character c: c itself if no row holds it
LowerBy(c, t) ==
    IF \E j \in 1..(Len(t) \div 4) : InLowerRow(c, t, j)
    THEN LET j == CHOOSE j \in 1..(Len(t) \div 4) : InLowerRow(c, t, j)
         IN  t[4 * j] + (c - t[4 * j - 3])
    ELSE c

\* str.lower() of one character other than U+0130 and the capital sigma
LowerCh(c) ==
    IF c < 128 THEN (IF c >= 65 /\ c <= 90 THEN c + 32 ELSE c)
    ELSE IF c >= 1040 /\ c <= 1071 THEN c + 32
    ELSE IF c >= 1072 /\ c <= 1103 THEN c
    ELSE LowerBy(c, LowerTable)

\* the place of the nearest character before i (d = -1) or after i (d = 1)
\* that is not passed over, 0 or Len(s) + 1 if there is none
RECURSIVE NextCased(_, _, _)
NextCased(s, i, d) ==
    IF i + d < 1 \/ i + d > Len(s) THEN i + d
    ELSE IF InRanges(s[i + d], CaseIgnorableRanges) THEN NextCased(s, i + d, d)
    ELSE i + d

\* j and k are the places found before and after a capital sigma: the one at
\* j is a letter with a case, the one at k is not
EndsWord(s, j, k) ==
    /\ j >= 1 /\ InRanges(s[j], CasedRanges)
    /\ (k > Len(s) \/ ~InRanges(s[k], CasedRanges))

\* the capital sigma at i ends a word: a letter with a case before it, none
\* after it. str.lower() writes the final sigma for it
FinalSigma(s, i) == EndsWord(s, NextCased(s, i, 0 - 1), NextCased(s, i, 1))

RECURSIVE LowerFrom(_, _)
LowerFrom(s, i) ==
    IF i > Len(s) THEN <<>>
    ELSE (IF s[i] = 304 THEN <<105, 775>>
          ELSE IF s[i] = 931 THEN <<IF FinalSigma(s, i) THEN 962 ELSE 963>>
          ELSE <<LowerCh(s[i])>>) \o LowerFrom(s, i + 1)

\* str.lower(): character by character, but for U+0130, which gives two
\* characters, and the capital sigma, which gives one of two
Lower(s) ==
    IF \A i \in DOMAIN s : s[i] # 304 /\ s[i] # 931
    THEN [i \in DOMAIN s |-> LowerCh(s[i])]
    ELSE LowerFrom(s, 1)

RECURSIVE LStrip(_)
LStrip(s) ==
    IF s # <<>> /\ Head(s) \in WhiteSpace THEN LStrip(Tail(s)) ELSE s

RECURSIVE RStrip(_)
RStrip(s) ==
    IF s # <<>> /\ s[Len(s)] \in WhiteSpace
    THEN RStrip(SubSeq(s, 1, Len(s) - 1))
    ELSE s

Strip(s) == RStrip(LStrip(s))

\* sub in s
Contains(s, sub) ==
    \E i \in 0..(Len(s) - Len(sub)) : SubSeq(s, i + 1, i + Len(sub)) = sub

StartsWith(s, pre) == Len(pre) <= Len(s) /\ SubSeq(s, 1, Len(pre)) = pre

EndsWith(s, suf) ==
    Len(suf) <= Len(s) /\ SubSeq(s, Len(s) - Len(suf) + 1, Len(s)) = suf

\* s.replace(ch, "") for a single character ch
RECURSIVE RemoveCh(_, _)
RemoveCh(s, ch) ==
    IF s = <<>> THEN <<>>
    ELSE IF Head(s) = ch THEN RemoveCh(Tail(s), ch)
    ELSE <<Head(s)>> \o RemoveCh(Tail(s), ch)

\* s.replace(a, b) for single characters a, b
ReplaceCh(s, a, b) == [i \in DOMAIN s |-> IF s[i] = a THEN b ELSE s[i]]

\* (x or "")
OrEmpty(x) == IF x = NoneVal THEN <<>> ELSE x

RECURSIVE SeqToSet(_)
SeqToSet(s) == IF s = <<>> THEN {} ELSE {Head(s)} \cup SeqToSet(Tail(s))

Reverse(s) == [i \in DOMAIN s |-> s[Len(s) + 1 - i]]

\* all orderings of the elements of a sequence without repeated elements
Orderings(s) ==
    {p \in [DOMAIN s -> SeqToSet(s)] : \A i, j \in DOMAIN s : i # j => p[i] # p[j]}

-----------------------------------------------------------------------------
(* Catalog exclusion builder: iiko_client.py *)

S_yandex == <<121, 97, 110, 100, 101, 120>>                \* "yandex"
S_gonzo_gaming == <<103, 111, 110, 122, 111, 32, 103, 97, 109, 105, 110, 103>>  \* "gonzo gaming"
S_netka == <<1085, 1077, 1090, 1082, 1072>>                \* "нетка"

\* _PRODUCT_GROUP_TYPES = {"products", "productgroup"}
PRODUCT_GROUP_TYPES ==
    { <<112, 114, 111, 100, 117, 99, 116, 115>>,
      <<112, 114, 111, 100, 117, 99, 116, 103, 114, 111, 117, 112>> }

\* _EXCLUDED_GROUP_NAMES
EXCLUDED_GROUP_NAMES ==
    { S_yandex,
      <<121, 97, 110, 100, 101, 120, 32, 45, 32, 1082, 1086, 1088, 1085, 1080>>,  \* "yandex - корни"
      <<1082, 1091, 1093, 1085, 1103>>,                                          \* "кухня"
      <<1091, 1089, 1083, 1091, 1075, 1080>>,                                    \* "услуги"
      <<103, 111, 110, 122, 111, 32, 103, 97, 109, 105, 110, 103, 32, 45, 32, 1085, 1077, 1090, 1082, 1072>>,  \* "gonzo gaming - нетка"
      <<103, 111, 110, 122, 111, 32, 103, 97, 109, 105, 110, 103, 45, 1085, 1077, 1090, 1082, 1072>>,          \* "gonzo gaming-нетка"
      <<1082, 1086, 1088, 1085, 1080, 32, 1084, 1077, 1085, 1102>> }              \* "корни меню"

\* IikoClient._is_excluded_group
IsExcludedGroup(name) ==
    LET n == Strip(Lower(name))
    IN  \/ n \in EXCLUDED_GROUP_NAMES
        \/ Contains(n, S_yandex)
        \/ Contains(n, S_gonzo_gaming) /\ Contains(n, S_netka)

\* the seed of _build_excluded_ids: untyped or group-typed items with an
\* excluded name
IsSeed(data) ==
    /\ \/ data.productType = <<>>
       \/ Lower(data.productType) \in PRODUCT_GROUP_TYPES
    /\ IsExcludedGroup(data.name)

ExcludedGroupIds(items) ==
    {items[i].id : i \in {j \in DOMAIN items : IsSeed(items[j])}}

\* a closure loop of one scan more: for _ in range(21)
MaxScansOneMore == 20 + 1

\* the cap of the closure loop: for _ in range(20)
MaxScans == 20

\* one scan of all_items in iteration order, from position i on: an id added
\* earlier in the scan already counts for the items after it
RECURSIVE ScanItems(_, _, _, _)
ScanItems(items, i, excl, added) ==
    IF i > Len(items) THEN [excluded |-> excl, added |-> added]
    ELSE IF items[i].id \in excl
         THEN ScanItems(items, i + 1, excl, added)
    ELSE IF items[i].parentId # <<>> /\ items[i].parentId \in excl
         THEN ScanItems(items, i + 1, excl \cup {items[i].id}, added + 1)
    ELSE ScanItems(items, i + 1, excl, added)

\* the closure loop after `done` scans
RECURSIVE ClosureLoop(_, _, _)
ClosureLoop(items, excl, done) ==
    IF done >= MaxScans THEN [excluded |-> excl, scans |-> done]
    ELSE LET r == ScanItems(items, 1, excl, 0)
         IN  IF r.added = 0
             THEN [excluded |-> r.excluded, scans |-> done + 1]
             ELSE ClosureLoop(items, r.excluded, done + 1)

\* IikoClient._build_excluded_ids, with the number of scans it made
BuildExcludedIds(items) == ClosureLoop(items, ExcludedGroupIds(items), 0)

\* all_items[prod_id] = {...}: a dict keeps the position of a key it already
\* holds and replaces its value
RECURSIVE DictPut(_, _)
DictPut(d, e) ==
    IF d = <<>> THEN <<e>>
    ELSE IF Head(d).id = e.id THEN <<e>> \o Tail(d)
    ELSE <<Head(d)>> \o DictPut(Tail(d), e)

RECURSIVE BuildAllItems(_, _)
BuildAllItems(ds, d) ==
    IF ds = <<>> THEN d
    ELSE BuildAllItems(Tail(ds),
            DictPut(d, [id          |-> Strip(OrEmpty(Head(ds).id)),
                        name        |-> Strip(OrEmpty(Head(ds).name)),
                        parentId    |-> Strip(OrEmpty(Head(ds).parentId)),
                        productType |-> Strip(OrEmpty(Head(ds).productType))]))

\* mutant of KeepsProduct: the test `prod_id in excluded_ids` is missing
KeepsProductNoExcludedTest(dto, excl) ==
    /\ Strip(OrEmpty(dto.name)) # <<>>
    /\ Lower(Strip(OrEmpty(dto.productType))) \notin PRODUCT_GROUP_TYPES

\* the second loop of _parse_products_xml over one productDto
KeepsProduct(dto, excl) ==
    /\ Strip(OrEmpty(dto.name)) # <<>>
    /\ Lower(Strip(OrEmpty(dto.productType))) \notin PRODUCT_GROUP_TYPES
    /\ Strip(OrEmpty(dto.id)) \notin excl

ProductOf(dto) ==
    LET num  == Strip(OrEmpty(dto.num))
        code == Strip(OrEmpty(dto.code))
        pc   == IF num # <<>> THEN num ELSE code
    IN  [id          |-> Strip(OrEmpty(dto.id)),
         name        |-> Strip(OrEmpty(dto.name)),
         productCode |-> pc,
         number      |-> pc,
         productType |-> Strip(OrEmpty(dto.productType)),
         mainUnit    |-> Strip(OrEmpty(dto.mainUnit))]

RECURSIVE FilterProducts(_, _)
FilterProducts(ds, excl) ==
    IF ds = <<>> THEN <<>>
    ELSE (IF KeepsProduct(Head(ds), excl) THEN <<ProductOf(Head(ds))>> ELSE <<>>)
         \o FilterProducts(Tail(ds), excl)

\* IikoClient._parse_products_xml on the productDto elements of the XML
ParseProductsXml(ds) ==
    LET items == BuildAllItems(ds, <<>>)
        built == BuildExcludedIds(items)
    IN  [allItems |-> items,
         excluded |-> built.excluded,
         scans    |-> built.scans,
         products |-> FilterProducts(ds, built.excluded)]
-----------------------------------------------------------------------------
(* Catalog snapshots the model draws *)

IdStr(n) == <<105, 48 + (n \div 10), 48 + (n % 10)>>       \* "i07"

T_GOODS == <<71, 79, 79, 68, 83>>                          \* "GOODS"
T_PRODUCTGROUP == <<80, 82, 79, 68, 85, 67, 84, 71, 82, 79, 85, 80>>  \* "PRODUCTGROUP"
T_productgroup == <<112, 114, 111, 100, 117, 99, 116, 103, 114, 111, 117, 112>>  \* "productgroup"
C_00375 == <<48, 48, 51, 55, 53>>                          \* "00375"

\* name, productType, num and code of the kinds of productDto drawn
KindSeedGroup ==      \* an excluded folder
    [name |-> <<89, 97, 110, 100, 101, 120, 32, 1045, 1076, 1072>>,   \* "Yandex Еда"
     productType |-> T_PRODUCTGROUP, num |-> NoneVal, code |-> NoneVal]
KindUntypedSeed ==    \* an excluded folder without a productType element
    [name |-> <<32, 1050, 1091, 1093, 1085, 1103, 32>>,                \* " Кухня "
     productType |-> NoneVal, num |-> NoneVal, code |-> NoneVal]
KindGoodsExcludedName ==   \* a product that only shares a folder's name
    [name |-> <<1059, 1089, 1083, 1091, 1075, 1080>>,                  \* "Услуги"
     productType |-> T_GOODS, num |-> C_00375, code |-> NoneVal]
KindGoods ==
    [name |-> <<1052, 1086, 1083, 1086, 1082, 1086>>,                  \* "Молоко"
     productType |-> T_GOODS, num |-> NoneVal, code |-> <<65, 49>>]    \* "A1"
KindGroup ==          \* a folder that is not excluded
    [name |-> <<1053, 1072, 1087, 1080, 1090, 1082, 1080>>,            \* "Напитки"
     productType |-> T_productgroup, num |-> NoneVal, code |-> NoneVal]
KindNameless ==
    [name |-> NoneVal, productType |-> T_GOODS, num |-> <<55>>, code |-> NoneVal]

AllKinds ==
    {KindSeedGroup, KindUntypedSeed, KindGoodsExcludedName, KindGoods, KindGroup,
     KindNameless}

Dto(idn, parentn, kind) ==
    [id          |-> IdStr(idn),
     parentId    |-> IF parentn = 0 THEN NoneVal ELSE IdStr(parentn),
     name        |-> kind.name,
     productType |-> kind.productType,
     num         |-> kind.num,
     code        |-> kind.code,
     mainUnit    |-> <<1082, 1075>>]                                   \* "кг"

\* every parentId assignment (self-loops and cycles included) over up to
\* MaxItems items, each an excluded folder or a product
HierarchySnapshots ==
    UNION { { [i \in 1..n |-> Dto(i, par[i], kd[i])] :
                par \in [1..n -> 0..n], kd \in [1..n -> {KindSeedGroup, KindGoods}] }
            : n \in 1..MaxItems }

\* two elements of every kind, distinct or sharing one id
KindSnapshots ==
    { <<Dto(1, p1, k1), Dto(i2, p2, k2)>> :
        k1 \in AllKinds, k2 \in AllKinds, p1 \in {0, 2}, p2 \in {0, 1}, i2 \in {1, 2} }

\* an excluded folder followed by a single line of descendants, parents first
ChainSnapshots ==
    { [i \in 1..n |-> Dto(i, i - 1, IF i = 1 THEN KindSeedGroup ELSE KindGoods)] :
        n \in 2..ChainLen }

Snapshots == HierarchySnapshots \cup KindSnapshots \cup ChainSnapshots

\* the iteration orders of all_items tried: all of them for a small dict,
\* the given and the reverse one for a large dict
Reorderings(items) ==
    IF Len(items) <= MaxItems THEN Orderings(items) ELSE {items, Reverse(items)}

-----------------------------------------------------------------------------
(* Catalog actions *)

CatIdle ==
    /\ dtos = <<>> /\ allItems = <<>> /\ excluded = {} /\ scans = 0
    /\ prevExcluded = {} /\ catProducts = <<>> /\ cphase = "idle"

CatInit ==
    /\ dtos \in Snapshots
    /\ allItems = <<>> /\ excluded = {} /\ scans = 0
    /\ prevExcluded = {} /\ catProducts = <<>>
    /\ cphase = "fetched"

\* get_products: the fetched XML is parsed into the product list
GetProducts ==
    /\ cphase = "fetched"
    /\ LET r == ParseProductsXml(dtos)
       IN  /\ allItems' = r.allItems
           /\ excluded' = r.excluded
           /\ scans' = r.scans
           /\ catProducts' = r.products
    /\ cphase' = "parsed"
    /\ UNCHANGED <<dtos, prevExcluded>>

\* _build_excluded_ids run once more on the same items, iterated in any order
BuildAgain ==
    /\ cphase \in {"parsed", "rebuilt"}
    /\ \E o \in Reorderings(allItems) :
         /\ allItems' = o
         /\ LET r == BuildExcludedIds(o)
            IN  excluded' = r.excluded /\ scans' = r.scans
    /\ prevExcluded' = excluded
    /\ cphase' = "rebuilt"
    /\ UNCHANGED <<dtos, catProducts>>

-----------------------------------------------------------------------------
(* Value parsers: pdf_parser.py *)

Digits == 48..57

\* the characters 0 of the decimal digits of Unicode 14 (category Nd), each
\* followed by its 1 to 9: int(), float(), Decimal() and \d of re take every
\* one of them for a digit
DigitZeros ==
    { 48, 1632, 1776, 1984, 2406, 2534, 2662, 2790, 2918, 3046, 3174, 3302, 3430,
      3558, 3664, 3792, 3872, 4160, 4240, 6112, 6160, 6470, 6608, 6784, 6800, 6992,
      7088, 7232, 7248, 42528, 43216, 43264, 43472, 43504, 43600, 44016, 65296,
      66720, 68912, 69734, 69872, 69942, 70096, 70384, 70736, 70864, 71248, 71360,
      71472, 71904, 72016, 72784, 73040, 73120, 92768, 92864, 93008, 120782,
      120792, 120802, 120812, 120822, 123200, 123632, 125264, 130032 }

IsDigitCh(c) == \E z \in DigitZeros : c >= z /\ c <= z + 9

DigitOf(c) == c - (CHOOSE z \in DigitZeros : c >= z /\ c <= z + 9)

AllDigits(d) == \A i \in DOMAIN d : IsDigitCh(d[i])

\* the characters str.isdigit() takes besides the decimal digits: superscripts,
\* subscripts, circled and parenthesized digits and the like
OtherDigitRanges ==
    { <<178, 179>>, <<185, 185>>, <<4969, 4977>>, <<6618, 6618>>, <<8304, 8304>>,
      <<8308, 8313>>, <<8320, 8329>>, <<9312, 9320>>, <<9332, 9340>>,
      <<9352, 9360>>, <<9450, 9450>>, <<9461, 9469>>, <<9471, 9471>>,
      <<10102, 10110>>, <<10112, 10120>>, <<10122, 10130>>, <<68160, 68163>>,
      <<69216, 69224>>, <<69714, 69722>>, <<127232, 127242>> }

\* str.isdigit()
StrIsDigit(t) ==
    /\ t # <<>>
    /\ \A i \in DOMAIN t :
          IsDigitCh(t[i]) \/ \E r \in OtherDigitRanges : t[i] >= r[1] /\ t[i] <= r[2]

\* the numbers of the model. A Decimal and a float are n / 10^s (sp = "fin"; s
\* is below 0 for a number written with an exponent), an infinity of the sign
\* of n ("inf"), a quiet or a signalling NaN ("nan", "snan"). ok = FALSE is no
\* number: None, or the ValueError of int() and float(). The sign of a zero
\* and the digits after the name of a NaN are not kept: no result depends on
\* them.
NoNumber == [ok |-> FALSE, sp |-> "fin", n |-> 0, s |-> 0]
Number(n, s) == [ok |-> TRUE, sp |-> "fin", n |-> n, s |-> s]
Special(sp, sign) == [ok |-> TRUE, sp |-> sp, n |-> sign, s |-> 0]

\* an exception in place of a number
Raised(exc) == [ok |-> FALSE, sp |-> exc, n |-> 0, s |-> 0]

Abs(x) == IF x < 0 THEN 0 - x ELSE x

RECURSIVE Pow10(_)
Pow10(k) == IF k = 0 THEN 1 ELSE 10 * Pow10(k - 1)

\* x \div 10^m and x % 10^m for x >= 0 and any m >= 0
DivPow10(x, m) == IF m > 9 THEN 0 ELSE x \div Pow10(m)
ModPow10(x, m) == IF m > 9 THEN x ELSE x % Pow10(m)

\* the value of a string of decimal digits
RECURSIVE DigitsVal(_)
DigitsVal(d) ==
    IF d = <<>> THEN 0
    ELSE 10 * DigitsVal(SubSeq(d, 1, Len(d) - 1)) + DigitOf(d[Len(d)])

\* the number of decimal digits of n >= 1
RECURSIVE NumDigits(_)
NumDigits(n) == IF n < 10 THEN 1 ELSE 1 + NumDigits(n \div 10)

\* the position of the first `ch` of s, 0 when there is none
RECURSIVE IndexOf(_, _, _)
IndexOf(s, ch, i) ==
    IF i > Len(s) THEN 0 ELSE IF s[i] = ch THEN i ELSE IndexOf(s, ch, i + 1)

HasSign(t) == t # <<>> /\ t[1] \in {43, 45}

Unsigned(t) == IF HasSign(t) THEN Tail(t) ELSE t

SignOf(t) == IF t # <<>> /\ t[1] = 45 THEN 0 - 1 ELSE 1

T_inf == <<105, 110, 102>>                                  \* "inf"
T_infinity == <<105, 110, 102, 105, 110, 105, 116, 121>>    \* "infinity"
T_nan == <<110, 97, 110>>                                   \* "nan"
T_snan == <<115, 110, 97, 110>>                             \* "snan"

\* the digits before the exponent letter of a lower-cased numeral, and the
\* exponent after it
Mantissa(b) ==
    IF IndexOf(b, 101, 1) = 0 THEN b ELSE SubSeq(b, 1, IndexOf(b, 101, 1) - 1)

Exponent(b) == SubSeq(b, IndexOf(b, 101, 1) + 1, Len(b))

\* a lower-cased numeral without its sign: digits with at most one decimal
\* point and at least one digit, then an optional exponent of the letter e,
\* an optional sign and at least one digit
IsDecimalBody(b) ==
    /\ \A i \in DOMAIN Mantissa(b) : IsDigitCh(Mantissa(b)[i]) \/ Mantissa(b)[i] = 46
    /\ Cardinality({i \in DOMAIN Mantissa(b) : Mantissa(b)[i] = 46}) <= 1
    /\ \E i \in DOMAIN Mantissa(b) : IsDigitCh(Mantissa(b)[i])
    /\ IndexOf(b, 101, 1) # 0 =>
          Unsigned(Exponent(b)) # <<>> /\ AllDigits(Unsigned(Exponent(b)))

\* the number a numeral b of sign sg (1 or -1) stands for
NumeralOf(sg, b) ==
    LET m   == Mantissa(b)
        dot == IndexOf(m, 46, 1)
        ex  == IF IndexOf(b, 101, 1) = 0 THEN 0
               ELSE SignOf(Exponent(b)) * DigitsVal(Unsigned(Exponent(b)))
    IN  Number(sg * DigitsVal(RemoveCh(m, 46)),
               (IF dot = 0 THEN 0 ELSE Len(m) - dot) - ex)

\* Decimal(t): the text is stripped and its underscores are dropped; a sign,
\* then a numeral, "inf", "infinity", or "nan" or "snan" and digits, in
\* either case of the letters. NoNumber is decimal.InvalidOperation
DecimalOf(t) ==
    LET u == RemoveCh(Strip(t), 95)
        b == Lower(Unsigned(u))
    IN  IF b \in {T_inf, T_infinity} THEN Special("inf", SignOf(u))
        ELSE IF StartsWith(b, T_nan) /\ AllDigits(SubSeq(b, 4, Len(b)))
            THEN Special("nan", 0)
        ELSE IF StartsWith(b, T_snan) /\ AllDigits(SubSeq(b, 5, Len(b)))
            THEN Special("snan", 0)
        ELSE IF IsDecimalBody(b) THEN NumeralOf(SignOf(u), b)
        ELSE NoNumber

\* _parse_number
ParseNumber(cell) ==
    IF cell = NoneVal \/ cell = <<>> THEN NoNumber
    ELSE DecimalOf(Strip(ReplaceCh(RemoveCh(cell, 32), 44, 46)))

\* int() and float() take an underscore only between two digits
UnderscoresOk(b) ==
    \A i \in DOMAIN b :
        b[i] = 95 => (i > 1 /\ i < Len(b) /\ IsDigitCh(b[i - 1]) /\ IsDigitCh(b[i + 1]))

\* int(val) of a stripped text: an optional sign and decimal digits
IntOf(val) ==
    LET b == Unsigned(val)
        d == RemoveCh(b, 95)
    IN  IF d # <<>> /\ UnderscoresOk(b) /\ AllDigits(d)
        THEN Number(SignOf(val) * DigitsVal(d), 0)
        ELSE NoNumber

\* n / 10^s = m * 10^Adjusted for a mantissa m of 1 <= |m| < 10 (n # 0)
Adjusted(x) == NumDigits(Abs(x.n)) - 1 - x.s

\* the first nine digits of the mantissa of n >= 1
Lead9(n) == IF NumDigits(n) = 10 THEN n \div 10 ELSE n * Pow10(9 - NumDigits(n))

\* the one name of a finite number: no zero at the end of n, then written
\* without an exponent (s = 0) if it is a whole number below 2^31
RECURSIVE Normal(_)
Normal(x) ==
    IF x.n = 0 THEN Number(0, 0)
    ELSE IF x.n % 10 = 0 THEN Normal(Number(x.n \div 10, x.s - 1))
    ELSE IF x.s < 0 /\ x.s >= 0 - 9 /\ Abs(x.n) <= 2147483647 \div Pow10(0 - x.s)
        THEN Number(x.n * Pow10(0 - x.s), 0)
    ELSE x

\* float(x) of a Decimal or of a numeral: the float nearest to it, which two
\* numbers of at most 15 digits share only if they are equal. From
\* 1.7976931348623158e308 on the float is an infinity, up to
\* 2.4703282292062327e-324 it is 0.0. Below 2.2250738585072014e-308 floats
\* hold fewer than 15 digits (sp = "sub"): there the record names the
\* number, and two records can stand for one float.
FloatOf(x) ==
    IF x.sp # "fin" THEN x
    ELSE IF x.n = 0 THEN Number(0, 0)
    ELSE LET a   == Abs(x.n)
             adj == Adjusted(x)
         IN  IF \/ adj > 308
                \/ adj = 308 /\ (IF NumDigits(a) = 10 THEN a >= 1797693135
                                  ELSE Lead9(a) >= 179769314)
                 THEN Special("inf", IF x.n < 0 THEN 0 - 1 ELSE 1)
             ELSE IF adj < 0 - 324 \/ (adj = 0 - 324 /\ Lead9(a) <= 247032822)
                 THEN Number(0, 0)
             ELSE IF adj < 0 - 308 \/ (adj = 0 - 308 /\ Lead9(a) <= 222507385)
                 THEN [Normal(x) EXCEPT !.sp = "sub"]
             ELSE Normal(x)

\* float(val) of a stripped text: a sign, then a numeral, "inf", "infinity"
\* or "nan". NoNumber is ValueError
FloatOfText(val) ==
    LET b == Lower(Unsigned(val))
    IN  IF b \in {T_inf, T_infinity} THEN Special("inf", SignOf(val))
        ELSE IF b = T_nan THEN Special("nan", 0)
        ELSE IF UnderscoresOk(b) /\ IsDecimalBody(RemoveCh(b, 95))
            THEN FloatOf(NumeralOf(SignOf(val), RemoveCh(b, 95)))
        ELSE NoNumber

\* int(float(val)) of a stripped text: the float cut towards zero. An
\* infinity is OverflowError, a NaN is ValueError. From 2^53 on the float is
\* a whole number that need not be the one written (sp = "big", n its sign)
IntOfFloat(val) ==
    LET f == FloatOfText(val)
        a == Abs(f.n)
    IN  IF ~f.ok THEN NoNumber
        ELSE IF f.sp = "nan" THEN Raised("ValueError")
        ELSE IF f.sp = "inf" THEN Raised("OverflowError")
        ELSE IF f.n = 0 \/ f.sp = "sub" THEN Number(0, 0)
        ELSE IF Adjusted(f) > 15 \/ (Adjusted(f) = 15 /\ Lead9(a) >= 900719926)
            THEN Special("big", IF f.n < 0 THEN 0 - 1 ELSE 1)
        ELSE IF f.s <= 0 THEN f
        ELSE Normal(Number((IF f.n < 0 THEN 0 - 1 ELSE 1) * DivPow10(a, f.s), 0))

\* long division of a = q * b + r by b, for k more digits or until nothing is
\* left: a * 10^j = q * b + r with 0 <= r < b after j digits, of which k are
\* still to come
RECURSIVE LongDiv(_, _, _, _)
LongDiv(q, r, b, k) ==
    IF k = 0 \/ r = 0 THEN [q |-> q, r |-> r, k |-> k]
    ELSE LongDiv(10 * q + (10 * r) \div b, (10 * r) % b, b, k - 1)

\* 2^k modulo 125
RECURSIVE Pow2Mod125(_)
Pow2Mod125(k) == IF k = 0 THEN 1 ELSE (2 * Pow2Mod125(k - 1)) % 125

\* the e of 2^e <= v < 2^(e + 1) for a whole number v >= 1
RECURSIVE Log2(_)
Log2(v) == IF v < 2 THEN 0 ELSE 1 + Log2(v \div 2)

\* the least j of v * 2^j >= 1000 for 1 <= v < 1000
RECURSIVE ShiftTo1000(_)
ShiftTo1000(v) == IF v >= 1000 THEN 0 ELSE 1 + ShiftTo1000(2 * v)

\* the e of 2^e <= t < 2^(e + 1) for t = (10 * h + 5) / 1000, a number of h
\* hundredths and a half
TieExponent(h) == IF h >= 100 THEN Log2(h \div 100) ELSE 0 - ShiftTo1000(10 * h + 5)

\* what the division of (10 * h + 5) * 2^(49 - e) by 125 leaves. The floats
\* next to t are the numbers M * 2^(e - 52) for whole M, and
\* t * 2^(52 - e) = (10 * h + 5) * 2^(49 - e) / 125: t lies TieRest(h) / 125 of
\* the way from the float below it to the float above it, 0 if it is a float
TieRest(h) == (((10 * (h % 125) + 5) % 125) * Pow2Mod125(49 - TieExponent(h))) % 125

\* round(x, 2) of the float x nearest to t: TRUE if it is h + 1 hundredths.
\* If t is a float, h is rounded to the even neighbour; else the float is
\* below t, and round gives h, if t lies less than half of the way up
TieRoundsUp(h) ==
    IF TieRest(h) = 0 THEN h % 2 = 1 ELSE TieRest(h) >= 63

\* q * b + r doubled n times, as a multiple of b and a rest below b; the
\* doubling ends once the multiple is over cap
RECURSIVE Doubled(_, _, _, _, _)
Doubled(q, r, b, n, cap) ==
    IF n = 0 \/ q > cap THEN [q |-> q, r |-> r]
    ELSE Doubled(2 * q + (2 * r) \div b, (2 * r) % b, b, n - 1, cap)

\* float(q) of a quotient q that lies v / (200 * b) above t, or below it for
\* v < 0, is the float nearest to t. With j = 0 if that float is the one below
\* t and j = 1 if it is the one above, the floats step 2^(e - 52) apart, t
\* lies TieRest(h) / 125 - j steps above it, and the numbers whose float it
\* is reach half a step to either side of it: w / 250 steps from t on the
\* side of q. The quotient lies 5 * |v| * 2^(50 - e) / b of those 250ths
\* from t
FloatOfTie(h, v, b) ==
    LET rest == TieRest(h)
        j    == IF 2 * rest < 125 THEN 0 ELSE 1
        w    == IF v > 0 THEN 125 + 250 * j - 2 * rest ELSE 2 * rest + 125 - 250 * j
    IN  Doubled((5 * Abs(v)) \div b, (5 * Abs(v)) % b, b, 50 - TieExponent(h), w).q < w

\* the mantissa of a is below the mantissa of b (a, b >= 1)
MantissaBelow(a, b) ==
    \/ Lead9(a) < Lead9(b)
    \/ /\ Lead9(a) = Lead9(b)
       /\ (IF NumDigits(a) = 10 THEN a % 10 ELSE 0) < (IF NumDigits(b) = 10 THEN b % 10 ELSE 0)

\* the exception of the Decimal division a / b, "" if there is none:
\* Infinity / Infinity and 0 / 0 are InvalidOperation, any other a / 0 is
\* DivisionByZero, a quotient of 10^1000000 or more is Overflow (Emax = 999999
\* in the default context)
DivisionError(a, b) ==
    IF a.sp = "inf" /\ b.sp = "inf" THEN "InvalidOperation"
    ELSE IF a.sp = "fin" /\ b.sp = "fin" /\ b.n = 0
        THEN (IF a.n = 0 THEN "InvalidOperation" ELSE "DivisionByZero")
    ELSE IF a.sp # "fin" \/ b.sp # "fin" \/ a.n = 0 THEN ""
    ELSE IF Adjusted(a) - Adjusted(b)
              - (IF MantissaBelow(Abs(a.n), Abs(b.n)) THEN 1 ELSE 0) > 999999
        THEN "Overflow"
    ELSE ""

\* round(float(a / b), 2) for a number a and b # 0 whose division raises
\* nothing. A quotient of at most two decimal places is its own rounding.
\* Any other is cut after its hundredths h, with its next digit d3 and
\* whether more follows, and lies to one side of t, h hundredths and a half.
\* round(.., 2) rounds the float of the quotient, not the quotient: a quotient
\* whose float is the float nearest to t is rounded as t is (TieRoundsUp),
\* any other to its own side of t. With k >= 0 the quotient is
\* (h + r / b) / 100 for the rest r that LongDiv leaves, which is
\* (2 * r - b) / (200 * b) above t. With k < 0 a quotient other than t is
\* further from t than a float step: its numerator has no more than ten digits
RoundHundredths(a, b) ==
    IF a.sp = "nan" THEN a
    ELSE IF a.sp = "inf" THEN Special("inf", a.n * (IF b.n < 0 THEN 0 - 1 ELSE 1))
    ELSE IF b.sp = "inf" \/ a.n = 0 THEN Number(0, 0)
    ELSE LET sg == IF (a.n < 0) # (b.n < 0) THEN 0 - 1 ELSE 1
             cn == Abs(a.n)
             bn == Abs(b.n)
             q0 == cn \div bn
             r0 == cn % bn
             k  == b.s + 2 - a.s
             ld == LongDiv(q0, r0, bn, k)
             lo == ModPow10(q0, 0 - k)
             h  == IF k >= 0 THEN ld.q ELSE DivPow10(q0, 0 - k)
             d3 == DivPow10(lo, 0 - k - 1)
             more == ModPow10(lo, 0 - k - 1) # 0 \/ r0 # 0
             up == IF k >= 0
                   THEN IF 2 * ld.r = bn \/ FloatOfTie(h, 2 * ld.r - bn, bn)
                        THEN TieRoundsUp(h)
                        ELSE 2 * ld.r > bn
                   ELSE d3 > 5 \/ (d3 = 5 /\ (more \/ TieRoundsUp(h)))
         IN  IF k >= 0 /\ Adjusted(a) - Adjusted(b) > 309 THEN Special("inf", sg)
             ELSE IF k >= 0 /\ ld.r = 0 THEN FloatOf(Number(sg * ld.q, 2 - ld.k))
             ELSE FloatOf(Number(sg * (IF up THEN h + 1 ELSE h), 2))

One == Number(1, 0)

U_kg == <<1082, 1075>>          \* "кг"
U_l == <<1083>>                 \* "л"
U_sht == <<1096, 1090>>         \* "шт"

\* normalize_unit
NormalizeUnit(unit) ==
    IF unit = <<>> THEN U_sht
    ELSE LET u == Lower(unit)
         IN  IF \/ Contains(u, U_kg)
                \/ Contains(u, <<107, 105, 108, 111, 103, 114, 97, 109>>)                   \* "kilogram"
                \/ Contains(u, <<1082, 1080, 1083, 1086, 1075, 1088, 1072, 1084, 1084>>)    \* "килограмм"
             THEN U_kg
             ELSE IF \/ Contains(u, U_l)
                     \/ Contains(u, <<1083, 1080, 1090, 1088>>)                             \* "литр"
                     \/ Contains(u, <<108, 105, 116, 101, 114>>)                            \* "liter"
             THEN U_l
             ELSE U_sht

-----------------------------------------------------------------------------
(* Table extractor of the PDF adapter: pdf_parser.py *)

M_numero == <<8470>>                                        \* "№"
M_naimenovanie == <<1085, 1072, 1080, 1084, 1077, 1085, 1086, 1074, 1072, 1085, 1080, 1077>>  \* "наименование"
M_tovar == <<1090, 1086, 1074, 1072, 1088>>                 \* "товар"
M_uslug == <<1091, 1089, 1083, 1091, 1075>>                 \* "услуг"
M_ed == <<1077, 1076>>                                      \* "ед"
M_izmer == <<1080, 1079, 1084, 1077, 1088>>                 \* "измер"
M_kolichestvo == <<1082, 1086, 1083, 1080, 1095, 1077, 1089, 1090, 1074, 1086>>  \* "количество"
M_kol_vo == <<1082, 1086, 1083, 45, 1074, 1086>>            \* "кол-во"
M_kol == <<1082, 1086, 1083>>                               \* "кол"
M_cena == <<1094, 1077, 1085, 1072>>                        \* "цена"
M_nds == <<1085, 1076, 1089>>                               \* "ндс"
M_uchetom == <<1091, 1095, 1077, 1090, 1086, 1084>>         \* "учетом"
M_uchyotom == <<1091, 1095, 1105, 1090, 1086, 1084>>        \* "учётом"
M_stoimost == <<1089, 1090, 1086, 1080, 1084, 1086, 1089, 1090, 1100>>  \* "стоимость"
M_postavki == <<1087, 1086, 1089, 1090, 1072, 1074, 1082, 1080>>        \* "поставки"
M_identifikacion == <<1080, 1076, 1077, 1085, 1090, 1080, 1092, 1080, 1082, 1072, 1094, 1080, 1086, 1085>>  \* "идентификацион"
M_kod == <<1082, 1086, 1076>>                               \* "код"
M_shtrih == <<1096, 1090, 1088, 1080, 1093>>                \* "штрих"

\* skip_words of parse_excel
SkipWordsExcel ==
    { <<1080, 1090, 1086, 1075, 1086>>,       \* "итого"
      <<1074, 1089, 1077, 1075, 1086>>,       \* "всего"
      <<116, 111, 116, 97, 108>>,             \* "total"
      <<1089, 1091, 1084, 1084, 1072>> }      \* "сумма"

\* skip_words of parse_invoice_pdf
SkipWordsPdf ==
    SkipWordsExcel \cup
    { <<1082, 1091, 1087, 1083, 1103, 45, 1087, 1088, 1086, 1076, 1072, 1078, 1072>> }  \* "купля-продажа"

\* \w of the regular expressions, which \d adds nothing to: the characters
\* of str.isalnum() and the underscore
IsWordCh(c) ==
    IF c < 128
    THEN \/ c >= 48 /\ c <= 57
         \/ c >= 65 /\ c <= 90
         \/ c >= 97 /\ c <= 122
         \/ c = 95
    ELSE InRanges(c, WordRanges)

RECURSIVE LastIndexOf(_, _, _)
LastIndexOf(s, ch, i) ==
    IF i = 0 THEN 0 ELSE IF s[i] = ch THEN i ELSE LastIndexOf(s, ch, i - 1)

\* re.sub(r"\s*\*[\d\w]+\s*$", "", name): a trailing article "*10013" goes,
\* with the blanks around it
StripArticle(s) ==
    LET k    == LastIndexOf(s, 42, Len(s))
        tail == RStrip(SubSeq(s, k + 1, Len(s)))
    IN  IF k > 0 /\ tail # <<>> /\ \A i \in DOMAIN tail : IsWordCh(tail[i])
        THEN RStrip(SubSeq(s, 1, k - 1))
        ELSE s

\* the name of a line item from its cell
CleanName(cell) == Strip(StripArticle(ReplaceCh(Strip(OrEmpty(cell)), 10, 32)))

HasSkipWord(name, skipWords) == \E w \in skipWords : Contains(Lower(name), w)

\* s[:k]
Take(s, k) == SubSeq(s, 1, IF Len(s) < k THEN Len(s) ELSE k)

\* " ".join(texts)
RECURSIVE Join(_)
Join(texts) ==
    IF texts = <<>> THEN <<>>
    ELSE IF Len(texts) = 1 THEN texts[1]
    ELSE texts[1] \o <<32>> \o Join(Tail(texts))

\* row[i] for a column index counted from 0
Cell(row, i) == row[i + 1]

\* row[i] if i < len(row) else ""
CellOrEmpty(row, i) == IF i < Len(row) THEN Cell(row, i) ELSE <<>>

\* _is_product_row: "true", "false", or "IndexError" when the row has no cell
\* at num_col (only ValueError and TypeError are caught)
IsProductRow(row, numCol) ==
    IF row = <<>> \/ Len(row) < 5 THEN "false"
    ELSE IF numCol >= Len(row) THEN "IndexError"
    ELSE LET val == Strip(OrEmpty(Cell(row, numCol)))
         IN  IF val = <<>> THEN "false"
             ELSE IF IntOf(val).ok /\ IntOf(val).n > 0 THEN "true"
             ELSE "false"

DefaultIndicesPdf ==
    [num |-> 0, name |-> 1, code |-> 2, unit |-> 3, quantity |-> 4, price |-> 5,
     cost_vat |-> 9]

\* the elif chain of _find_column_indices for the cell at index i
ColumnOfCellPdf(ind, i, cell) ==
    IF Strip(cell) = M_numero \/ (Len(cell) <= 3 /\ Contains(cell, M_numero))
        THEN [ind EXCEPT !.num = i]
    ELSE IF Contains(cell, M_naimenovanie)
            /\ (Contains(cell, M_tovar) \/ Contains(cell, M_uslug))
        THEN [ind EXCEPT !.name = i]
    ELSE IF Contains(cell, M_ed) \/ Contains(cell, M_izmer)
        THEN [ind EXCEPT !.unit = i]
    ELSE IF Contains(cell, M_kolichestvo) \/ Contains(cell, M_kol_vo)
        THEN [ind EXCEPT !.quantity = i]
    ELSE IF Contains(cell, M_cena) /\ ~Contains(cell, M_nds)
        THEN [ind EXCEPT !.price = i]
    ELSE IF Contains(cell, M_nds) /\ Contains(cell, M_uchetom)
        THEN [ind EXCEPT !.cost_vat = i]
    ELSE IF Contains(cell, M_stoimost) /\ Contains(cell, M_nds)
        THEN [ind EXCEPT !.cost_vat = i]
    ELSE IF Contains(cell, M_stoimost) /\ Contains(cell, M_postavki)
            /\ Contains(cell, M_uchyotom)
        THEN [ind EXCEPT !.cost_vat = i]
    ELSE IF Contains(cell, M_identifikacion)
            \/ (Contains(cell, M_kod) /\ ~Contains(cell, M_shtrih))
        THEN [ind EXCEPT !.code = i]
    ELSE ind

RECURSIVE FindColumnsFrom(_, _, _)
FindColumnsFrom(row, i, ind) ==
    IF i >= Len(row) THEN ind
    ELSE FindColumnsFrom(row, i + 1,
            ColumnOfCellPdf(ind, i, Lower(OrEmpty(Cell(row, i)))))

\* _find_column_indices
FindColumnIndices(headerRow) == FindColumnsFrom(headerRow, 0, DefaultIndicesPdf)

\* the lower-cased cells of a row joined by blanks
RowStr(row) == Join([i \in DOMAIN row |-> Lower(OrEmpty(row[i]))])

\* the header test of parse_invoice_pdf
IsHeaderRowPdf(row) ==
    /\ Cardinality({i \in DOMAIN row : row[i] # NoneVal /\ row[i] # <<>>
                                        /\ Strip(row[i]) # <<>>}) >= 3
    /\ Contains(RowStr(row), M_naimenovanie)
    /\ Contains(RowStr(row), M_kolichestvo) \/ Contains(RowStr(row), M_kol_vo)

\* the test `qty is None or qty <= 0` that discards a row, negated
QuantityAccepted(qty) == qty.ok /\ qty.n > 0

\* a Decimal that is a NaN: `qty <= 0` and `cost_vat > 0` raise
\* decimal.InvalidOperation on it
IsNaN(x) == x.ok /\ x.sp \in {"nan", "snan"}

\* the price of a line item, round(price_with_vat, 2), for a quantity that
\* was accepted, or the exception raised on the way to it: of the test
\* `cost_vat > 0`, of the division, or of float() of a signalling NaN
PriceWithVat(costVat, price, qty) ==
    IF IsNaN(costVat) THEN Raised("InvalidOperation")
    ELSE IF costVat.ok /\ costVat.n > 0
        THEN IF DivisionError(costVat, qty) # "" THEN Raised(DivisionError(costVat, qty))
             ELSE RoundHundredths(costVat, qty)
    ELSE IF price.ok /\ price.sp = "snan" THEN Raised("ValueError")
    ELSE IF price.ok /\ (price.sp # "fin" \/ price.n # 0) THEN RoundHundredths(price, One)
    ELSE Number(0, 0)

\* the dict appended to products
LineItem(name, unit, qty, costVat, price, code) ==
    [name           |-> name,
     unit           |-> NormalizeUnit(unit),
     quantity       |-> FloatOf(qty),
     price_with_vat |-> PriceWithVat(costVat, price, qty),
     code_from_pdf  |-> Take(code, 80)]

\* the body of the row loop of parse_invoice_pdf for one row under the column
\* map `col` (NoColumns: None). kind: "empty", "header", "nomap", "notproduct",
\* "skipname", "badqty", "item", or "raise" when an exception, exc, leaves the
\* function.
NoColumns == [num |-> -1, name |-> -1, code |-> -1, unit |-> -1, quantity |-> -1,
              price |-> -1, cost_vat |-> -1]

Outcome(kind, col) == [kind |-> kind, col |-> col, item |-> <<>>, exc |-> ""]

Raise(exc, col) == [kind |-> "raise", col |-> col, item |-> <<>>, exc |-> exc]

\* the row whose quantity was accepted: a line item, or the exception of its
\* price
ItemOrRaise(col, name, unit, qty, cost, prc, code) ==
    IF ~PriceWithVat(cost, prc, qty).ok THEN Raise(PriceWithVat(cost, prc, qty).sp, col)
    ELSE [kind |-> "item", col |-> col,
          item |-> <<LineItem(name, unit, qty, cost, prc, code)>>, exc |-> ""]

PdfRow(row, col) ==
    IF row = <<>> THEN Outcome("empty", col)
    ELSE IF IsHeaderRowPdf(row) THEN Outcome("header", FindColumnIndices(row))
    ELSE IF col = NoColumns THEN Outcome("nomap", col)
    ELSE IF IsProductRow(row, col.num) = "IndexError" THEN Raise("IndexError", col)
    ELSE IF IsProductRow(row, col.num) = "false" THEN Outcome("notproduct", col)
    ELSE IF col.name >= Len(row) THEN Raise("IndexError", col)
    ELSE LET name == CleanName(Cell(row, col.name))
             code == Strip(OrEmpty(CellOrEmpty(row, col.code)))
             unit == Strip(OrEmpty(CellOrEmpty(row, col.unit)))
             qty  == ParseNumber(CellOrEmpty(row, col.quantity))
             cost == ParseNumber(CellOrEmpty(row, col.cost_vat))
             prc  == ParseNumber(CellOrEmpty(row, col.price))
         IN  IF name = <<>> \/ HasSkipWord(name, SkipWordsPdf)
                 THEN Outcome("skipname", col)
             ELSE IF IsNaN(qty) THEN Raise("InvalidOperation", col)
             ELSE IF ~QuantityAccepted(qty) THEN Outcome("badqty", col)
             ELSE ItemOrRaise(col, name, unit, qty, cost, prc, code)

-----------------------------------------------------------------------------
(* Table extractor of the spreadsheet adapter: excel_parser.py *)

DefaultIndicesExcel ==
    [num |-> 0, name |-> 1, code |-> 2, unit |-> 3, quantity |-> 4, price |-> 5,
     cost_vat |-> 8]

\* the header search looks at rows 1..29: range(1, min(ws.max_row + 1, 30))
HeaderSearchEnd == 30

\* str(ws.cell(row, c + 1).value) stripped, "" for an empty cell or a column
\* the row does not have
XCell(row, i) == IF i < Len(row) THEN Strip(OrEmpty(Cell(row, i))) ELSE <<>>

\* the elif chain of _find_header_row for the cell at index i
ColumnOfCellExcel(ind, i, cell) ==
    IF cell = M_numero \/ (Len(cell) <= 3 /\ Contains(cell, M_numero))
        THEN [ind EXCEPT !.num = i]
    ELSE IF Contains(cell, M_naimenovanie)
        THEN [ind EXCEPT !.name = i]
    ELSE IF Contains(cell, M_ed) \/ Contains(cell, M_izmer)
        THEN [ind EXCEPT !.unit = i]
    ELSE IF Contains(cell, M_kol)
        THEN [ind EXCEPT !.quantity = i]
    ELSE IF Contains(cell, M_cena) /\ ~Contains(cell, M_nds)
        THEN [ind EXCEPT !.price = i]
    ELSE IF Contains(cell, M_stoimost)
            /\ (Contains(cell, M_uchetom) \/ Contains(cell, M_uchyotom))
            /\ Contains(cell, M_nds)
        THEN [ind EXCEPT !.cost_vat = i]
    ELSE IF Contains(cell, M_identifikacion)
            \/ (Contains(cell, M_kod) /\ ~Contains(cell, M_shtrih))
        THEN [ind EXCEPT !.code = i]
    ELSE ind

\* row_vals of _find_header_row
RowValsExcel(row) == [i \in DOMAIN row |-> Strip(Lower(OrEmpty(row[i])))]

RECURSIVE HeaderColumnsFrom(_, _, _)
HeaderColumnsFrom(vals, i, ind) ==
    IF i >= Len(vals) THEN ind
    ELSE HeaderColumnsFrom(vals, i + 1, ColumnOfCellExcel(ind, i, Cell(vals, i)))

\* the header test of _find_header_row
IsHeaderRowExcel(row) ==
    LET vals == RowValsExcel(row)
        text == Join(vals)
    IN  /\ Cardinality({i \in DOMAIN vals : vals[i] # <<>>}) >= 3
        /\ Contains(text, M_naimenovanie)
        /\ Contains(text, M_kol) \/ Contains(text, M_kolichestvo)

\* re.fullmatch(r"\d+", name)
IsAllDigits(name) == name # <<>> /\ AllDigits(name)

\* the row number test of parse_excel, int(float(num_val)) > 0: "true",
\* "false", or "OverflowError" for an infinity (ValueError and TypeError only
\* are caught)
ExcelRowNumberOk(numVal) ==
    IF numVal = <<>> THEN "false"
    ELSE IF IntOfFloat(numVal).sp = "OverflowError" THEN "OverflowError"
    ELSE IF IntOfFloat(numVal).ok /\ IntOfFloat(numVal).n > 0 THEN "true"
    ELSE "false"

\* one sheet row, the rowIdx-th, of parse_excel: before a header is found the
\* header search of _find_header_row, after it the data row loop
ExcelRow(row, col, rowIdx) ==
    IF col = NoColumns
    THEN IF rowIdx < HeaderSearchEnd /\ IsHeaderRowExcel(row)
         THEN Outcome("header",
                      HeaderColumnsFrom(RowValsExcel(row), 0, DefaultIndicesExcel))
         ELSE Outcome("nomap", col)
    ELSE IF ExcelRowNumberOk(XCell(row, col.num)) = "OverflowError"
        THEN Raise("OverflowError", col)
    ELSE IF ExcelRowNumberOk(XCell(row, col.num)) = "false" THEN Outcome("notproduct", col)
    ELSE LET name == CleanName(XCell(row, col.name))
             code == XCell(row, col.code)
             unit == XCell(row, col.unit)
             qty  == ParseNumber(XCell(row, col.quantity))
             cost == ParseNumber(XCell(row, col.cost_vat))
             prc  == ParseNumber(XCell(row, col.price))
         IN  IF name = <<>> \/ HasSkipWord(name, SkipWordsExcel)
                 THEN Outcome("skipname", col)
             ELSE IF IsAllDigits(name) THEN Outcome("skipname", col)
             ELSE IF IsNaN(qty) THEN Raise("InvalidOperation", col)
             ELSE IF ~QuantityAccepted(qty) THEN Outcome("badqty", col)
             ELSE ItemOrRaise(col, name, unit, qty, cost, prc, code)

-----------------------------------------------------------------------------
(* The rows the documents of the model are made of *)

\* a header: №, name, code, unit, quantity, price, total with VAT:
\*   ["№", "Наименование товара", "Код", "Ед.", "Кол-во", "Цена", "Стоимость с учетом НДС"]
RowHeaderStd ==
    << <<8470>>,
       <<1053, 1072, 1080, 1084, 1077, 1085, 1086, 1074, 1072, 1085, 1080, 1077, 32, 1090, 1086, 1074, 1072, 1088, 1072>>,
       <<1050, 1086, 1076>>,
       <<1045, 1076, 46>>,
       <<1050, 1086, 1083, 45, 1074, 1086>>,
       <<1062, 1077, 1085, 1072>>,
       <<1057, 1090, 1086, 1080, 1084, 1086, 1089, 1090, 1100, 32, 1089, 32, 1091, 1095, 1077, 1090, 1086, 1084, 32, 1053, 1044, 1057>> >>

\* a header whose name column is the sixth:
\*   ["№", "Код", "Ед.", "Кол-во", "Цена", "Наименование товара"]
RowHeaderNameLast ==
    << <<8470>>,
       <<1050, 1086, 1076>>,
       <<1045, 1076, 46>>,
       <<1050, 1086, 1083, 45, 1074, 1086>>,
       <<1062, 1077, 1085, 1072>>,
       <<1053, 1072, 1080, 1084, 1077, 1085, 1086, 1074, 1072, 1085, 1080, 1077, 32, 1090, 1086, 1074, 1072, 1088, 1072>> >>

\* a product row with an article suffix and a comma quantity:
\*   ["1", "Молоко 3.2% *10013", "00375", "кг", "2,5", "100", "275"]
RowMilk ==
    << <<49>>,
       <<1052, 1086, 1083, 1086, 1082, 1086, 32, 51, 46, 50, 37, 32, 42, 49, 48, 48, 49, 51>>,
       <<48, 48, 51, 55, 53>>,
       <<1082, 1075>>,
       <<50, 44, 53>>,
       <<49, 48, 48>>,
       <<50, 55, 53>> >>

\* a product row with a negative unit price and no total:
\*   ["2", "Хлеб", None, "шт", "3", "-5", ""]
RowBread ==
    << <<50>>,
       <<1061, 1083, 1077, 1073>>,
       NoneVal,
       <<1096, 1090>>,
       <<51>>,
       <<45, 53>>,
       <<>> >>

\* a product row whose total does not divide evenly:
\*   ["3", "Рис", "", "кг", "3", "", "10"]
RowRice ==
    << <<51>>,
       <<1056, 1080, 1089>>,
       <<>>,
       <<1082, 1075>>,
       <<51>>,
       <<>>,
       <<49, 48>> >>

\* quantity 0:
\*   ["4", "Сыр", "", "л", "0", "10", "20"]
RowZeroQty ==
    << <<52>>,
       <<1057, 1099, 1088>>,
       <<>>,
       <<1083>>,
       <<48>>,
       <<49, 48>>,
       <<50, 48>> >>

\* an unparseable quantity:
\*   ["5", "Соль", "", "", "abc", "7", "7"]
RowBadQty ==
    << <<53>>,
       <<1057, 1086, 1083, 1100>>,
       <<>>,
       <<>>,
       <<97, 98, 99>>,
       <<55>>,
       <<55>> >>

\* a negative quantity:
\*   ["6", "Сахар", "", "кг", "-1", "10", "10"]
RowNegQty ==
    << <<54>>,
       <<1057, 1072, 1093, 1072, 1088>>,
       <<>>,
       <<1082, 1075>>,
       <<45, 49>>,
       <<49, 48>>,
       <<49, 48>> >>

\* a footer: no row number:
\*   ["Итого", "", "", "", "", "", "275"]
RowTotal ==
    << <<1048, 1090, 1086, 1075, 1086>>,
       <<>>,
       <<>>,
       <<>>,
       <<>>,
       <<>>,
       <<50, 55, 53>> >>

\* a numbered row whose name holds a skip-word:
\*   ["7", "Всего к оплате", "", "", "1", "", "275"]
RowSkipName ==
    << <<55>>,
       <<1042, 1089, 1077, 1075, 1086, 32, 1082, 32, 1086, 1087, 1083, 1072, 1090, 1077>>,
       <<>>,
       <<>>,
       <<49>>,
       <<>>,
       <<50, 55, 53>> >>

\* a row of five cells:
\*   ["8", "Чай", "", "шт", "3"]
RowShort5 ==
    << <<56>>,
       <<1063, 1072, 1081>>,
       <<>>,
       <<1096, 1090>>,
       <<51>> >>

\* a row of four cells:
\*   ["9", "Кофе", "шт", "1"]
RowShort4 ==
    << <<57>>,
       <<1050, 1086, 1092, 1077>>,
       <<1096, 1090>>,
       <<49>> >>

\* a numbered row whose name is digits only:
\*   ["10", "12345", "", "шт", "1", "10", "10"]
RowDigitsName ==
    << <<49, 48>>,
       <<49, 50, 51, 52, 53>>,
       <<>>,
       <<1096, 1090>>,
       <<49>>,
       <<49, 48>>,
       <<49, 48>> >>

\* a row number written as a float:
\*   ["1.0", "Мука", "", "кг", "1", "30,5", ""]
RowFloatNum ==
    << <<49, 46, 48>>,
       <<1052, 1091, 1082, 1072>>,
       <<>>,
       <<1082, 1075>>,
       <<49>>,
       <<51, 48, 44, 53>>,
       <<>> >>

\* a quantity that is not a number to Decimal:
\*   ["11", "Мёд", "", "кг", "NaN", "10", "10"]
RowNanQty ==
    << <<49, 49>>,
       <<1052, 1105, 1076>>,
       <<>>,
       <<1082, 1075>>,
       <<78, 97, 78>>,
       <<49, 48>>,
       <<49, 48>> >>

\* a quantity with an exponent and a price of thousandths:
\*   ["12", "Перец", "", "кг", "1e1", "2.675", ""]
RowExpQty ==
    << <<49, 50>>,
       <<1055, 1077, 1088, 1077, 1094>>,
       <<>>,
       <<1082, 1075>>,
       <<49, 101, 49>>,
       <<50, 46, 54, 55, 53>>,
       <<>> >>

\* a row number that is an infinity to float():
\*   ["inf", "Чай", "", "шт", "1", "5", "5"]
RowInfNum ==
    << <<105, 110, 102>>,
       <<1063, 1072, 1081>>,
       <<>>,
       <<1096, 1090>>,
       <<49>>,
       <<53>>,
       <<53>> >>

\* a total that is not a number to Decimal:
\*   ["13", "Соус", "", "шт", "1", "5", "NaN"]
RowNanCost ==
    << <<49, 51>>,
       <<1057, 1086, 1091, 1089>>,
       <<>>,
       <<1096, 1090>>,
       <<49>>,
       <<53>>,
       <<78, 97, 78>> >>

\* a quantity above 0 that is below every float:
\*   ["14", "Соль", "", "кг", "1e-400", "10", ""]
RowTinyQty ==
    << <<49, 52>>,
       <<1057, 1086, 1083, 1100>>,
       <<>>,
       <<1082, 1075>>,
       <<49, 101, 45, 52, 48, 48>>,
       <<49, 48>>,
       <<>> >>

\* a product row in the layout of HeaderNameLast:
\*   ["1", "A7", "кг", "2", "15", "Перец"]
RowNameLast ==
    << <<49>>,
       <<65, 55>>,
       <<1082, 1075>>,
       <<50>>,
       <<49, 53>>,
       <<1055, 1077, 1088, 1077, 1094>> >>

\* a row whose article suffix holds a skip-word:
\*   ["15", "Сыр *итого", "", "кг", "1", "10", "10"]
RowSuffixSkip ==
    << <<49, 53>>,
       <<1057, 1099, 1088, 32, 42, 1080, 1090, 1086, 1075, 1086>>,
       <<>>,
       <<1082, 1075>>,
       <<49>>,
       <<49, 48>>,
       <<49, 48>> >>

\* a row of empty cells:
\*   [None, None, None, None, None, None, None]
RowBlank ==
    << NoneVal,
       NoneVal,
       NoneVal,
       NoneVal,
       NoneVal,
       NoneVal,
       NoneVal >>

\* a row without cells:
\*   []
RowEmpty == <<>>

RowVocabulary ==
    { RowHeaderStd,
      RowHeaderNameLast,
      RowMilk,
      RowBread,
      RowRice,
      RowZeroQty,
      RowBadQty,
      RowNegQty,
      RowTotal,
      RowSkipName,
      RowShort5,
      RowShort4,
      RowDigitsName,
      RowFloatNum,
      RowNanQty,
      RowExpQty,
      RowInfNum,
      RowNanCost,
      RowTinyQty,
      RowNameLast,
      RowSuffixSkip,
      RowBlank,
      RowEmpty }

-----------------------------------------------------------------------------
(* Parsing a document, row by row *)

\* rows of one document
MaxRows == 4

ParseIdle ==
    /\ adapter = "idle" /\ colIndices = NoColumns /\ products = <<>>
    /\ pstatus = "idle" /\ rowsRead = 0
    /\ hdrInTable = FALSE /\ itemsInTable = 0 /\ rowsClaimed = 0
    /\ lastRow = <<>> /\ lastCol = NoColumns /\ lastKind = "none"

\* parse_invoice_pdf or parse_excel is called on a document
ParseInit ==
    /\ adapter \in {"pdf", "excel"}
    /\ colIndices = NoColumns /\ products = <<>>
    /\ pstatus = "running" /\ rowsRead = 0
    /\ hdrInTable = FALSE /\ itemsInTable = 0 /\ rowsClaimed = 0
    /\ lastRow = <<>> /\ lastCol = NoColumns /\ lastKind = "none"

\* the cell of a row in the column of the map, "" when the row has none
MapCell(row, i) == IF i >= 0 /\ i < Len(row) THEN OrEmpty(Cell(row, i)) ELSE <<>>

\* the rows the claim C4 counts: a positive integer in the row-number column,
\* read as the adapter reads it, and a name without a skip-word; the name is
\* the one the adapters test (pdf_parser.py:169-172, excel_parser.py:113-115),
\* the cell with its line breaks replaced and its article suffix removed
RowClaimed(ad, row, c) ==
    /\ IF ad = "pdf"
       THEN IntOf(Strip(MapCell(row, c.num))).ok /\ IntOf(Strip(MapCell(row, c.num))).n > 0
       ELSE ExcelRowNumberOk(Strip(MapCell(row, c.num))) = "true"
    /\ CleanName(MapCell(row, c.name)) # <<>>
    /\ ~HasSkipWord(CleanName(MapCell(row, c.name)),
                    IF ad = "pdf" THEN SkipWordsPdf ELSE SkipWordsExcel)

\* the effect of one row on the extractor and on the counts kept of it
Processed(row, o) ==
    /\ colIndices' = o.col
    /\ products' = products \o o.item
    /\ pstatus' = IF o.kind = "raise" THEN "raised" ELSE pstatus
    /\ rowsRead' = rowsRead + 1
    /\ hdrInTable' = (hdrInTable \/ o.kind = "header")
    /\ itemsInTable' = itemsInTable + Len(o.item)
    /\ rowsClaimed' = IF o.kind = "header" THEN 0
                      ELSE IF hdrInTable /\ RowClaimed(adapter, row, colIndices)
                           THEN rowsClaimed + 1
                      ELSE rowsClaimed
    /\ lastRow' = row /\ lastCol' = colIndices /\ lastKind' = o.kind
    /\ UNCHANGED adapter

\* parse_invoice_pdf: the next row of the current table
PdfProcessRow ==
    /\ adapter = "pdf" /\ pstatus = "running" /\ rowsRead < MaxRows
    /\ \E row \in RowVocabulary : Processed(row, PdfRow(row, colIndices))

\* parse_invoice_pdf: the rows of a table are done and the page has another
\* table; col_indices stays
PdfNextTable ==
    /\ adapter = "pdf" /\ pstatus = "running"
    /\ hdrInTable' = FALSE /\ itemsInTable' = 0 /\ rowsClaimed' = 0
    /\ lastKind' = "table"
    /\ UNCHANGED <<adapter, colIndices, products, pstatus, rowsRead, lastRow, lastCol>>

\* parse_invoice_pdf: the tables of a page are done and the document has
\* another page; col_indices = None
PdfNextPage ==
    /\ adapter = "pdf" /\ pstatus = "running"
    /\ colIndices' = NoColumns
    /\ hdrInTable' = FALSE /\ itemsInTable' = 0 /\ rowsClaimed' = 0
    /\ lastKind' = "page"
    /\ UNCHANGED <<adapter, products, pstatus, rowsRead, lastRow, lastCol>>

\* parse_excel: the next row of the active sheet
ExcelProcessRow ==
    /\ adapter = "excel" /\ pstatus = "running" /\ rowsRead < MaxRows
    /\ \E row \in RowVocabulary : Processed(row, ExcelRow(row, colIndices, rowsRead + 1))

\* the rows are done: {"products": products, ...} is returned
ParseReturn ==
    /\ pstatus = "running"
    /\ pstatus' = "returned"
    /\ UNCHANGED <<adapter, colIndices, products, rowsRead, hdrInTable, itemsInTable,
                   rowsClaimed, lastRow, lastCol, lastKind>>

-----------------------------------------------------------------------------
(* Product search: iiko_client.py *)

\* _SKIP_WORDS = {"для", "или", "и", "в", "на", "с", "по", "из", "от", "до", "без"}
SKIP_WORDS ==
    { <<1076, 1083, 1103>>, <<1080, 1083, 1080>>, <<1080>>, <<1074>>, <<1085, 1072>>, <<1089>>, <<1087, 1086>>, <<1080, 1079>>, <<1086, 1090>>, <<1076, 1086>>, <<1073, 1077, 1079>> }

\* _TYPO_MAP, in the order of the dict
TYPO_MAP ==
    << [typo |-> <<1072, 1074, 1072, 1082, 1072, 1076, 1086>>, correct |-> <<1072, 1074, 1086, 1082, 1072, 1076, 1086>>],   \* "авакадо", "авокадо"
       [typo |-> <<1085, 1086, 1093, 1086, 1090>>, correct |-> <<1085, 1086, 1088, 1080>>],   \* "нохот", "нори"
       [typo |-> <<1084, 1072, 1095, 1105, 1085, 1099, 1081>>, correct |-> <<1084, 1072, 1088, 1080, 1085, 1086, 1074, 1072, 1085, 1085, 1099, 1081>>] >>   \* "мачёный", "маринованный"

\* re.sub(rf"\b{typo}\b", correct, q) from position i of q on
RECURSIVE SubWord(_, _, _, _)
SubWord(q, i, typo, correct) ==
    IF i > Len(q) THEN <<>>
    ELSE IF /\ i + Len(typo) - 1 <= Len(q)
            /\ SubSeq(q, i, i + Len(typo) - 1) = typo
            /\ (i = 1 \/ ~IsWordCh(q[i - 1]))
            /\ (i + Len(typo) > Len(q) \/ ~IsWordCh(q[i + Len(typo)]))
         THEN correct \o SubWord(q, i + Len(typo), typo, correct)
         ELSE <<q[i]>> \o SubWord(q, i + 1, typo, correct)

RECURSIVE ApplyTypos(_, _)
ApplyTypos(q, typos) ==
    IF typos = <<>> THEN q
    ELSE ApplyTypos(SubWord(q, 1, Head(typos).typo, Head(typos).correct), Tail(typos))

\* _normalize_query
NormalizeQuery(query) == ApplyTypos(Strip(Lower(query)), TYPO_MAP)

\* the non-empty pieces of s between runs of separator characters, with the
\* piece `cur` in progress
RECURSIVE SplitOn(_, _, _)
SplitOn(s, seps, cur) ==
    IF s = <<>> THEN (IF cur = <<>> THEN <<>> ELSE <<cur>>)
    ELSE IF Head(s) \in seps
         THEN (IF cur = <<>> THEN <<>> ELSE <<cur>>) \o SplitOn(Tail(s), seps, <<>>)
         ELSE SplitOn(Tail(s), seps, cur \o <<Head(s)>>)

\* str.split()
SplitWs(s) == SplitOn(s, WhiteSpace, <<>>)

\* the separators of re.split(r"[\s/\-\(\)]+", ...): blanks, "/", "-", "(", ")"
TokenSeparators == WhiteSpace \cup {47, 45, 40, 41}

\* a tokenizer that keeps the short words and the skip words
TokenizeQueryUnfiltered(query) == SplitOn(Lower(query), TokenSeparators, <<>>)

\* _tokenize_query; the empty pieces re.split gives at the ends are shorter
\* than 3 and go with the filter
TokenizeQuery(query) ==
    SelectSeq(SplitOn(Lower(query), TokenSeparators, <<>>),
              LAMBDA w : Len(w) >= 3 /\ w \notin SKIP_WORDS)

\* _count_keyword_matches
CountKeywordMatches(query, name) ==
    LET words == TokenizeQuery(query)
        nameLower == Lower(name)
        hit(w) == \/ Contains(nameLower, w)
                  \/ Len(w) >= 5 /\ Contains(nameLower, Take(w, 5))
                  \/ Len(w) >= 6 /\ Contains(nameLower, Take(w, 6))
    IN  Cardinality({i \in DOMAIN words : hit(words[i])})

\* _query_any_word_in_name
QueryAnyWordInName(query, name) ==
    LET words == TokenizeQuery(query)
        nameLower == Lower(name)
    IN  \/ words = <<>>
        \/ \E i \in DOMAIN words :
             \/ Contains(nameLower, words[i])
             \/ Len(words[i]) >= 5 /\ Contains(nameLower, Take(words[i], 5))

\* (p.get("productCode") or p.get("number") or ""): both keys hold the same
\* text in a product of get_products
CodeOf(p) == p.productCode

\* a candidate that is not kept
Dropped == -1
\* the entry of a list returned by a code stage has no score
NoScore == -2

\* the texts for which a function of the similarity library gives 100:
\* fuzz.ratio for equal texts, fuzz.partial_ratio when the shorter text is a
\* part of the longer one, fuzz.token_set_ratio when the two share a word and
\* the words of one are all words of the other (fuzz.token_sort_ratio gives
\* 100 for the same words in any order, which is such a case)
FuzzSure(a, b) ==
    LET wa == SeqToSet(SplitWs(a))
        wb == SeqToSet(SplitWs(b))
    IN  \/ a = b
        \/ a # <<>> /\ b # <<>> /\ (Contains(a, b) \/ Contains(b, a))
        \/ wa \cap wb # {} /\ (wa \subseteq wb \/ wb \subseteq wa)

\* max(fuzz.ratio(q, name), fuzz.ratio(q, code), fuzz.partial_ratio(q, name),
\* fuzz.token_set_ratio(q, name), fuzz.token_sort_ratio(q, name)): 100 where
\* one of the five is 100, else the value f below 100 the library gives
FuzzMax(q, name, code, f) == IF FuzzSure(q, name) \/ q = code THEN 100 ELSE f

\* a score in which a product taken for its code or its name is kept without
\* the keyword gate
CandidateScoreUngated(p, q, f) ==
    LET name  == Lower(p.name)
        code  == Lower(CodeOf(p))
        score == FuzzMax(q, name, code, f)
        words == TokenizeQuery(q)
        minMatches == IF Len(words) >= 2 THEN 2 ELSE 1
    IN  IF code # <<>> /\ q = code THEN 100
        ELSE IF \/ name = q
                \/ StartsWith(name, q \o <<32>>)
                \/ EndsWith(name, <<32>> \o q)
             THEN (IF score > 95 THEN score ELSE 95)
        ELSE IF score <= 35 THEN Dropped
        ELSE IF ~QueryAnyWordInName(q, p.name) THEN Dropped
        ELSE IF CountKeywordMatches(q, p.name) < minMatches THEN Dropped
        ELSE score

\* the score of a product in _search_in_products, Dropped when it is pruned
\* or fails the keyword gate
CandidateScore(p, q, f) ==
    LET name  == Lower(p.name)
        code  == Lower(CodeOf(p))
        score == FuzzMax(q, name, code, f)
        words == TokenizeQuery(q)
        minMatches == IF Len(words) >= 2 THEN 2 ELSE 1
        forced == IF code # <<>> /\ q = code THEN 100
                  ELSE IF \/ name = q
                          \/ StartsWith(name, q \o <<32>>)
                          \/ EndsWith(name, <<32>> \o q)
                       THEN (IF score > 95 THEN score ELSE 95)
                  ELSE IF score <= 35 THEN Dropped
                  ELSE score
    IN  IF forced = Dropped THEN Dropped
        ELSE IF ~QueryAnyWordInName(q, p.name) THEN Dropped
        ELSE IF CountKeywordMatches(q, p.name) < minMatches THEN Dropped
        ELSE forced

\* the dict appended to matches
Match(p, sc) == [id |-> p.id, name |-> p.name, productCode |-> CodeOf(p), score |-> sc]

\* the matches list before it is sorted: the kept products in catalog order
RECURSIVE MatchesFrom(_, _, _, _)
MatchesFrom(prods, q, fz, k) ==
    IF k > Len(prods) THEN <<>>
    ELSE LET sc == CandidateScore(prods[k], q, fz[k])
         IN  (IF sc = Dropped THEN <<>> ELSE <<Match(prods[k], sc)>>)
                \o MatchesFrom(prods, q, fz, k + 1)

\* the sort key (-score, len(name)) of a is at most that of b
KeyLeq(a, b) ==
    \/ a.score > b.score
    \/ a.score = b.score /\ Len(a.name) <= Len(b.name)

\* m put into a sorted list after the entries whose key is at most its own
RECURSIVE InsertSorted(_, _)
InsertSorted(sorted, m) ==
    IF sorted = <<>> THEN <<m>>
    ELSE IF KeyLeq(Head(sorted), m) THEN <<Head(sorted)>> \o InsertSorted(Tail(sorted), m)
    ELSE <<m>> \o sorted

\* matches.sort(key=...): a stable sort
RECURSIVE SortMatches(_)
SortMatches(ms) ==
    IF ms = <<>> THEN <<>>
    ELSE InsertSorted(SortMatches(SubSeq(ms, 1, Len(ms) - 1)), ms[Len(ms)])

\* a search that filters by min_score and cuts afterwards, one entry late
SearchInProductsLateCut(prods, q, limit, minScore, fz) ==
    Take(SelectSeq(SortMatches(MatchesFrom(prods, q, fz, 1)),
                   LAMBDA m : m.score >= minScore), limit + 1)

\* _search_in_products
SearchInProducts(prods, q, limit, minScore, fz) ==
    SelectSeq(Take(SortMatches(MatchesFrom(prods, q, fz, 1)), limit),
              LAMBDA m : m.score >= minScore)

\* the code of a product without its spaces
CodeClean(p) == RemoveCh(CodeOf(p), 32)

\* code_matches: the product's code, spaces removed, is the token
IsCodeHit(p, token) == CodeClean(p) = token

CodeMatches(prods, token) == SelectSeq(prods, LAMBDA p : IsCodeHit(p, token))

\* code_partial
CodePartial(prods, token) == SelectSeq(prods, LAMBDA p : Contains(CodeClean(p), token))

\* code_part: the first blank-separated part that is digits, 3 or more
FirstCodePart(parts) ==
    LET hits == SelectSeq(parts, LAMBDA p : StrIsDigit(RemoveCh(p, 32)) /\ Len(p) >= 3)
    IN  IF hits = <<>> THEN NoneVal ELSE Head(hits)

\* the code stages of search_product: the list they return and the stage that
\* gave it, "none" when the search goes on to the fuzzy stage
CodeStage(prods, queryLower, limit) ==
    LET codePart == FirstCodePart(SplitWs(queryLower))
        byPart   == IF codePart = NoneVal THEN <<>>
                    ELSE CodeMatches(prods, RemoveCh(codePart, 32))
        qClean   == RemoveCh(queryLower, 32)
        exact    == CodeMatches(prods, qClean)
        partial  == CodePartial(prods, qClean)
    IN  IF byPart # <<>> THEN [stage |-> "code_exact", hits |-> Take(byPart, limit)]
        ELSE IF StrIsDigit(qClean) /\ exact # <<>>
             THEN [stage |-> "code_exact", hits |-> Take(exact, limit)]
        ELSE IF StrIsDigit(qClean) /\ partial # <<>>
             THEN [stage |-> "code_partial", hits |-> Take(partial, limit)]
        ELSE [stage |-> "none", hits |-> <<>>]

\* the dict of a returned list
Returned(m) == [id |-> m.id, name |-> m.name, productCode |-> m.productCode]

\* words of the relaxations: the significant words, else the parts of 2 or more
RelaxWords(queryLower) ==
    LET words == TokenizeQuery(queryLower)
    IN  IF words # <<>> THEN words
        ELSE SelectSeq(SplitWs(queryLower), LAMBDA w : Len(w) >= 2)

\* " ".join(words[:2]) if len(words) >= 2 else words[0]
ShortQuery(words) == IF Len(words) >= 2 THEN Join(Take(words, 2)) ELSE words[1]

\* max(words, key=len): the first of the longest words
RECURSIVE LongestWord(_)
LongestWord(words) ==
    IF Len(words) = 1 THEN words[1]
    ELSE LET rest == LongestWord(Tail(words))
         IN  IF Len(Head(words)) >= Len(rest) THEN Head(words) ELSE rest

S_maslo == <<1084, 1072, 1089, 1083, 1086>>   \* "масло"
S_frityur == <<1092, 1088, 1080, 1090, 1102, 1088>>   \* "фритюр"
S_maslo_frityura == <<1084, 1072, 1089, 1083, 1086, 32, 1092, 1088, 1080, 1090, 1102, 1088, 1072>>   \* "масло фритюра"

-----------------------------------------------------------------------------
(* One call of search_product, stage by stage *)

\* products of the catalog held by the client
MaxProducts == 2

\* the products a catalog of the model is made of: two that share the code
\* "00375", one with the code "375", one whose code has a blank inside, and one
\* without a code
P_granat == [id |-> IdStr(1), name |-> <<1043, 1088, 1072, 1085, 1072, 1090>>, productCode |-> C_00375]   \* "Гранат"
P_granat_red == [id |-> IdStr(2), name |-> <<1043, 1088, 1072, 1085, 1072, 1090, 32, 1082, 1088, 1072, 1089, 1085, 1099, 1081>>, productCode |-> C_00375]   \* "Гранат красный"
P_avocado == [id |-> IdStr(3), name |-> <<1040, 1074, 1086, 1082, 1072, 1076, 1086, 32, 1089, 1074, 1077, 1078, 1080, 1081>>, productCode |-> <<51, 55, 53>>]   \* "Авокадо свежий", "375"
P_cheese == [id |-> IdStr(4), name |-> <<1057, 1099, 1088>>, productCode |-> <<48, 48, 32, 51, 55, 53>>]   \* "Сыр", "00 375"
P_oil == [id |-> IdStr(5), name |-> <<1052, 1072, 1089, 1083, 1086, 32, 1092, 1088, 1080, 1090, 1102, 1088, 1085, 1086, 1077>>, productCode |-> <<>>]   \* "Масло фритюрное"

ProductVocabulary == {P_granat, P_granat_red, P_avocado, P_cheese, P_oil}

\* the product lists get_products can hold: up to MaxProducts different
\* products in any order
Catalogs ==
    UNION { {c \in [1..n -> ProductVocabulary] : \A i, j \in 1..n : i # j => c[i] # c[j]}
            : n \in 0..MaxProducts }

Q_00375 == C_00375
Q_375 == <<51, 55, 53>>   \* "375"
Q_granat_00375 == <<1075, 1088, 1072, 1085, 1072, 1090, 32, 48, 48, 51, 55, 53>>   \* "гранат 00375"
Q_avakado == <<1072, 1074, 1072, 1082, 1072, 1076, 1086, 32, 1089, 1074, 1077, 1078, 1080, 1081>>   \* "авакадо свежий"
Q_avokado == <<1072, 1074, 1086, 1082, 1072, 1076, 1086, 32, 1089, 1074, 1077, 1078, 1080, 1081>>   \* "авокадо свежий"
Q_Granat == <<1043, 1088, 1072, 1085, 1072, 1090>>   \* "Гранат"
Q_oil == <<1084, 1072, 1089, 1083, 1086, 32, 1076, 1083, 1103, 32, 1092, 1088, 1080, 1090, 1102, 1088, 1085, 1080, 1094, 1099>>   \* "масло для фритюрницы"
Q_blank == <<32, 32>>                                       \* "  "
Q_short == <<1085, 1072, 32, 1089>>   \* "на с"
Q_cheese == <<1089, 1099, 1088>>   \* "сыр"
Q_granaty == <<1075, 1088, 1072, 1085, 1072, 1090, 1099>>   \* "гранаты"

Q_empty == <<>>                                             \* ""

Queries ==
    { Q_00375, Q_375, Q_granat_00375, Q_avakado, Q_avokado, Q_Granat, Q_oil,
      Q_blank, Q_short, Q_cheese, Q_granaty, Q_empty }

\* limit and min_score of a call: the defaults 10 and 38, a limit that cuts
\* and a higher threshold
Limits == {1, 10}
MinScores == {38, 60}

\* values of the similarity library for texts it does not give 100: pruned
\* (<= 35), kept but under every min_score, between the two values of
\* min_score, above both, and above the bonus of 95
ScoreValues == {30, 37, 50, 70, 97}

SearchIdle ==
    /\ sProvider = "idle" /\ sCatalog = <<>> /\ sQuery = <<>>
    /\ sLimit = 0 /\ sMinScore = 0 /\ sPhase = "idle"
    /\ sResult = <<>> /\ sScores = <<>> /\ sStage = "none"
    /\ sWords = <<>> /\ sTried = {}

\* search_product(query, limit, min_score) is called on a client that is a
\* stub, cannot fetch its products, or holds a product list
SearchInit ==
    /\ sProvider \in {"stub", "failing", "ready"}
    /\ sCatalog \in Catalogs
    /\ sProvider # "ready" => sCatalog = <<>>
    /\ sQuery \in Queries
    /\ sLimit \in Limits /\ sMinScore \in MinScores
    /\ sPhase = "called"
    /\ sResult = <<>> /\ sScores = <<>> /\ sStage = "none"
    /\ sWords = <<>> /\ sTried = {}

\* a second set of calls: queries with a number inside, numbers that are part
\* of a code only, and queries without a significant word, on catalogs with a
\* product whose name is such a query and one whose code is
P_nas == [id |-> IdStr(6), name |-> <<1053, 1072, 32, 1089>>, productCode |-> <<55, 55>>]   \* "На с", "77"
P_napo == [id |-> IdStr(7), name |-> <<1057, 1086, 1091, 1089>>, productCode |-> <<1085, 1072, 45, 1087, 1086>>]   \* "Соус", "на-по"

MoreProducts == {P_granat, P_cheese, P_nas, P_napo}

MoreCatalogs ==
    UNION { {c \in [1..n -> MoreProducts] : \A i, j \in 1..n : i # j => c[i] # c[j]}
            : n \in 0..MaxProducts }

Q_granat_037 == <<1075, 1088, 1072, 1085, 1072, 1090, 32, 48, 51, 55>>   \* "гранат 037"
Q_037 == <<48, 51, 55>>   \* "037"
Q_37 == <<51, 55>>   \* "37"
Q_00_37 == <<48, 48, 32, 51, 55>>   \* "00 37"
Q_napo == <<1085, 1072, 45, 1087, 1086>>   \* "на-по"
Q_iz_12 == <<1080, 1079, 32, 49, 50>>   \* "из 12"

MoreQueries ==
    { Q_granat_037, Q_037, Q_37, Q_00_37, Q_00375, Q_granat_00375, Q_short, Q_napo, Q_iz_12 }

SearchInitMore ==
    /\ sProvider = "ready"
    /\ sCatalog \in MoreCatalogs
    /\ sQuery \in MoreQueries
    /\ sLimit \in Limits /\ sMinScore \in MinScores
    /\ sPhase = "called"
    /\ sResult = <<>> /\ sScores = <<>> /\ sStage = "none"
    /\ sWords = <<>> /\ sTried = {}

\* query_lower
QueryLower == NormalizeQuery(Strip(sQuery))

\* search_product returns the list of a stage, without the scores
Finish(ms, stage) ==
    /\ sResult' = [i \in DOMAIN ms |-> Returned(ms[i])]
    /\ sScores' = [i \in DOMAIN ms |-> ms[i].score]
    /\ sStage' = stage
    /\ sPhase' = "returned"

\* the scores the similarity library gives the products of the catalog for
\* one text
Oracles == [1..Len(sCatalog) -> ScoreValues]

\* _search_in_products on a text: a text that gave the empty list before gives
\* it again
StageResult(text, fz) ==
    IF text \in sTried THEN <<>>
    ELSE SearchInProducts(sCatalog, text, sLimit, sMinScore, fz)

\* a search that goes on to the next stage with a list in hand
AdvancePastHit(ran, text, ms, stage, next) ==
    IF next = "returned"
    THEN Finish(ms, IF ms # <<>> THEN stage ELSE "none") /\ UNCHANGED sTried
    ELSE /\ sTried' = IF ran /\ ms = <<>> THEN sTried \cup {text} ELSE sTried
         /\ sPhase' = next /\ UNCHANGED <<sResult, sScores, sStage>>

\* after a stage: return its list, or go on to the next stage
Advance(ran, text, ms, stage, next) ==
    IF ms # <<>>
    THEN Finish(ms, stage) /\ UNCHANGED sTried
    ELSE /\ sTried' = IF ran THEN sTried \cup {text} ELSE sTried
         /\ IF next = "returned"
            THEN Finish(<<>>, "none")
            ELSE sPhase' = next /\ UNCHANGED <<sResult, sScores, sStage>>

\* search_product up to the fuzzy stage: the stub, get_products, the empty
\* query and the code stages
SearchCall ==
    /\ sPhase = "called"
    /\ IF sProvider = "stub" THEN Finish(<<>>, "stub")
       ELSE IF sProvider = "failing"
            THEN sPhase' = "raised" /\ UNCHANGED <<sResult, sScores, sStage>>
       ELSE IF Strip(sQuery) = <<>> THEN Finish(<<>>, "empty")
       ELSE LET c == CodeStage(sCatalog, QueryLower, sLimit)
            IN  IF c.stage # "none"
                THEN Finish([i \in DOMAIN c.hits |-> Match(c.hits[i], NoScore)], c.stage)
                ELSE sPhase' = "fuzzy" /\ UNCHANGED <<sResult, sScores, sStage>>
    /\ UNCHANGED <<sProvider, sCatalog, sQuery, sLimit, sMinScore, sWords, sTried>>

\* result = self._search_in_products(products, query_lower, limit, min_score)
SearchFuzzy ==
    /\ sPhase = "fuzzy"
    /\ \E fz \in Oracles :
         Advance(TRUE, QueryLower, StageResult(QueryLower, fz), "fuzzy", "two")
    /\ UNCHANGED <<sProvider, sCatalog, sQuery, sLimit, sMinScore, sWords>>

\* the first relaxation: the first two significant words
SearchFirstTwoWords ==
    /\ sPhase = "two"
    /\ LET words == RelaxWords(QueryLower)
           run   == words # <<>> /\ ShortQuery(words) # QueryLower
           text  == IF run THEN ShortQuery(words) ELSE <<>>
       IN  /\ \E fz \in Oracles :
                Advance(run, text, IF run THEN StageResult(text, fz) ELSE <<>>,
                        "two_words", "longest")
           /\ sWords' = words
    /\ UNCHANGED <<sProvider, sCatalog, sQuery, sLimit, sMinScore>>

\* the second relaxation: the longest word, of 4 characters or more
SearchLongestWord ==
    /\ sPhase = "longest"
    /\ LET run  == sWords # <<>> /\ Len(LongestWord(sWords)) >= 4
           text == IF run THEN LongestWord(sWords) ELSE <<>>
       IN  \E fz \in Oracles :
             Advance(run, text, IF run THEN StageResult(text, fz) ELSE <<>>,
                     "longest_word", "fry")
    /\ UNCHANGED <<sProvider, sCatalog, sQuery, sLimit, sMinScore, sWords>>

\* the third relaxation: the phrase for frying oil; then the list is returned
SearchFryPhrase ==
    /\ sPhase = "fry"
    /\ LET run == Contains(QueryLower, S_maslo) /\ Contains(QueryLower, S_frityur)
       IN  \E fz \in Oracles :
             Advance(run, S_maslo_frityura,
                     IF run THEN StageResult(S_maslo_frityura, fz) ELSE <<>>,
                     "fry_phrase", "returned")
    /\ UNCHANGED <<sProvider, sCatalog, sQuery, sLimit, sMinScore, sWords>>

-----------------------------------------------------------------------------
(* Supplier matching: iiko_client.py *)

\* suppliers of the list given to match_supplier
MaxSuppliers == 2

\* no supplier: None
NoSupplier == [ok |-> FALSE, id |-> <<>>, name |-> <<>>]

\* best_score = 50
BEST_SCORE_FLOOR == 50

\* max(fuzz.ratio(query, name), fuzz.partial_ratio(query, name),
\* fuzz.token_set_ratio(query, name), fuzz.token_sort_ratio(query, name)): 100
\* where one of the four is 100, else the value f the library gives
SupplierScore(query, name, f) == IF FuzzSure(query, name) THEN 100 ELSE f

\* if score > best_score
IsBetter(score, bestScore) == score > bestScore

\* the loop of match_supplier from the k-th supplier on
RECURSIVE BestFrom(_, _, _, _, _, _)
BestFrom(sups, query, fz, k, best, bestScore) ==
    IF k > Len(sups) THEN best
    ELSE LET name  == Lower(OrEmpty(sups[k].name))
             score == SupplierScore(query, name, fz[k])
         IN  IF name = <<>> THEN BestFrom(sups, query, fz, k + 1, best, bestScore)
             ELSE IF IsBetter(score, bestScore)
                  THEN BestFrom(sups, query, fz, k + 1,
                                [ok |-> TRUE, id |-> sups[k].id, name |-> sups[k].name],
                                score)
             ELSE BestFrom(sups, query, fz, k + 1, best, bestScore)

\* match_supplier
MatchSupplier(pdfName, sups, fz) ==
    IF pdfName = NoneVal \/ pdfName = <<>> \/ sups = <<>> THEN NoSupplier
    ELSE LET query == Strip(Lower(pdfName))
         IN  IF Len(query) < 3 THEN NoSupplier
             ELSE BestFrom(sups, query, fz, 1, NoSupplier, BEST_SCORE_FLOOR)

Sup_romashka == [id |-> IdStr(11), name |-> <<1054, 1054, 1054, 32, 1056, 1086, 1084, 1072, 1096, 1082, 1072>>]   \* "ООО Ромашка"
Sup_romashka_plus == [id |-> IdStr(12), name |-> <<1056, 1086, 1084, 1072, 1096, 1082, 1072, 32, 1087, 1083, 1102, 1089>>]   \* "Ромашка плюс"
Sup_bazelik == [id |-> IdStr(13), name |-> <<1057, 1055, 32, 66, 97, 122, 101, 108, 105, 107>>]   \* "СП Bazelik"

SupplierVocabulary == {Sup_romashka, Sup_romashka_plus, Sup_bazelik}

\* the lists get_suppliers can give: up to MaxSuppliers different suppliers
SupplierLists ==
    UNION { {c \in [1..n -> SupplierVocabulary] : \A i, j \in 1..n : i # j => c[i] # c[j]}
            : n \in 0..MaxSuppliers }

N_ab == <<97, 98>>   \* "ab"
N_romashka == <<1054, 1054, 1054, 32, 1056, 1086, 1084, 1072, 1096, 1082, 1072>>   \* "ООО Ромашка"
N_bazelik == <<66, 97, 122, 101, 108, 105, 107, 32, 66, 117, 115, 105, 110, 101, 115, 115>>   \* "Bazelik Business"

\* names given to match_supplier: None, the empty text, a name of two
\* characters and longer names
SupplierNames == {NoneVal, <<>>, N_ab, N_romashka, N_bazelik}

\* values of the similarity library around the floor of 50
SupplierScoreValues == {40, 50, 60, 80}

SupplierIdle ==
    /\ mName = <<>> /\ mSuppliers = <<>> /\ mFuzz = <<>>
    /\ mBest = NoSupplier /\ mPhase = "idle"

\* match_supplier(pdf_supplier_name, suppliers) is called
SupplierInit ==
    /\ mName \in SupplierNames
    /\ mSuppliers \in SupplierLists
    /\ mFuzz = <<>> /\ mBest = NoSupplier /\ mPhase = "called"

\* match_supplier runs with the scores the similarity library gives
MatchSupplierCall ==
    /\ mPhase = "called"
    /\ \E fz \in [1..Len(mSuppliers) -> SupplierScoreValues] :
         /\ mFuzz' = fz
         /\ mBest' = MatchSupplier(mName, mSuppliers, fz)
    /\ mPhase' = "returned"
    /\ UNCHANGED <<mName, mSuppliers>>

-----------------------------------------------------------------------------
(* The learned-mapping store: product_mappings.py *)

\* entries of one argument of save_mappings
MaxMappings == 2

\* _normalize_key
NormalizeKey(name) == Join(SplitWs(Strip(OrEmpty(name))))

\* a dict of the store is a function from its keys; {} has no key
EmptyDict == <<>>

\* data[key] = value
DictSet(d, k, v) == [x \in (DOMAIN d) \cup {k} |-> IF x = k THEN v ELSE d[x]]

\* del data[key]
DictDel(d, k) == [x \in (DOMAIN d) \ {k} |-> d[x]]

\* the file product_mappings.json: "absent", "json" with the dict it holds,
\* "truncated" (text that is no JSON document) or "badutf8" (bytes that are no
\* UTF-8 text); the last two are what a write that failed half way leaves
FileAbsent == [kind |-> "absent", data |-> EmptyDict]

JsonFile(d) == [kind |-> "json", data |-> d]

\* what the file system does to the read of one call: "ok", "oserror" (open
\* raises OSError) or "exists_error" (_MAPPINGS_FILE.exists() raises OSError:
\* the directory cannot be searched)
ReadOutcomes == {"ok", "oserror", "exists_error"}

\* what it does to the write of one call: "ok", "mkdir_error" (_DATA_DIR.mkdir
\* raises OSError), "open_error" (open raises OSError), "dump_truncated" and
\* "dump_badutf8" (json.dump raises OSError after part of the text is written)
WriteOutcomes == {"ok", "mkdir_error", "open_error", "dump_truncated", "dump_badutf8"}

\* _load_raw: the dict read, or the exception that leaves it
LoadRaw(f, rd) ==
    IF rd = "exists_error" THEN [raised |-> TRUE, data |-> EmptyDict]
    ELSE IF f.kind = "absent" THEN [raised |-> FALSE, data |-> EmptyDict]
    ELSE IF rd = "oserror" THEN [raised |-> FALSE, data |-> EmptyDict]
    ELSE IF f.kind = "json" THEN [raised |-> FALSE, data |-> f.data]
    ELSE IF f.kind = "truncated" THEN [raised |-> FALSE, data |-> EmptyDict]
    ELSE [raised |-> TRUE, data |-> EmptyDict]

\* _save_raw: the file it leaves, and whether an exception leaves it
SaveRaw(f, data, wr) ==
    IF wr = "mkdir_error" THEN [raised |-> TRUE, file |-> f]
    ELSE IF wr = "open_error" THEN [raised |-> FALSE, file |-> f]
    ELSE IF wr = "dump_truncated"
         THEN [raised |-> FALSE, file |-> [kind |-> "truncated", data |-> EmptyDict]]
    ELSE IF wr = "dump_badutf8"
         THEN [raised |-> FALSE, file |-> [kind |-> "badutf8", data |-> EmptyDict]]
    ELSE [raised |-> FALSE, file |-> JsonFile(data)]

\* no mapping: None
NoMapping == [ok |-> FALSE, id |-> <<>>, name |-> <<>>, productCode |-> <<>>]

\* a mapping read from the store
Found(rec) == [ok |-> TRUE, id |-> rec.id, name |-> rec.name,
               productCode |-> rec.productCode]

\* get_mapping
GetMapping(f, pdfName, rd) ==
    LET key == NormalizeKey(pdfName)
        ld  == LoadRaw(f, rd)
    IN  IF key = <<>> THEN [raised |-> FALSE, result |-> NoMapping]
        ELSE IF ld.raised THEN [raised |-> TRUE, result |-> NoMapping]
        ELSE IF key \in DOMAIN ld.data
             THEN [raised |-> FALSE, result |-> Found(ld.data[key])]
        ELSE [raised |-> FALSE, result |-> NoMapping]

\* remove_mapping
RemoveMapping(f, pdfName, rd, wr) ==
    LET key == NormalizeKey(pdfName)
        ld  == LoadRaw(f, rd)
    IN  IF key = <<>> THEN [raised |-> FALSE, file |-> f]
        ELSE IF ld.raised THEN [raised |-> TRUE, file |-> f]
        ELSE IF key \in DOMAIN ld.data THEN SaveRaw(f, DictDel(ld.data, key), wr)
        ELSE [raised |-> FALSE, file |-> f]

\* the value save_mappings stores for a product
StoredRecord(p) ==
    [id |-> p.id, name |-> p.name,
     productCode |-> IF p.productCode # <<>> THEN p.productCode ELSE p.number]

\* the loop of save_mappings over mappings.items()
RECURSIVE MergeMappings(_, _)
MergeMappings(data, mappings) ==
    IF mappings = <<>> THEN data
    ELSE LET key == NormalizeKey(Head(mappings).key)
             p   == Head(mappings).value
         IN  IF key = <<>> \/ p.id = <<>> THEN MergeMappings(data, Tail(mappings))
             ELSE MergeMappings(DictSet(data, key, StoredRecord(p)), Tail(mappings))

\* save_mappings
SaveMappings(f, mappings, rd, wr) ==
    IF mappings = <<>> THEN [raised |-> FALSE, file |-> f]
    ELSE LET ld == LoadRaw(f, rd)
         IN  IF ld.raised THEN [raised |-> TRUE, file |-> f]
             ELSE SaveRaw(f, MergeMappings(ld.data, mappings), wr)

K_milk == <<1052, 1086, 1083, 1086, 1082, 1086, 32, 51, 46, 50, 37>>   \* "Молоко 3.2%"
K_milk_wide == <<1052, 1086, 1083, 1086, 1082, 1086, 32, 32, 51, 46, 50, 37>>   \* "Молоко  3.2%"
K_milk_padded == <<32, 1052, 1086, 1083, 1086, 1082, 1086, 32, 51, 46, 50, 37, 32>>   \* " Молоко 3.2% "
K_cheese == <<1057, 1099, 1088>>   \* "Сыр"
K_blank == <<32, 32>>   \* "  "

\* names given to get_mapping and remove_mapping
KeyVocabulary == {K_milk, K_milk_wide, K_milk_padded, K_cheese, K_blank}

\* names that are keys of an argument of save_mappings
SaveKeys == {K_milk_wide, K_milk_padded, K_cheese, K_blank}

V_milk == [id |-> IdStr(1), name |-> <<1052, 1086, 1083, 1086, 1082, 1086, 32, 51, 46, 50, 37, 32, 49, 1083>>, productCode |-> <<48, 48, 49>>, number |-> <<48, 48, 49>>]   \* "Молоко 3.2% 1л", "001", "001"
V_milk_number == [id |-> IdStr(2), name |-> <<1052, 1086, 1083, 1086, 1082, 1086, 32, 50, 46, 53, 37>>, productCode |-> <<>>, number |-> <<48, 48, 50>>]   \* "Молоко 2.5%", "002"
V_noid == [id |-> <<>>, name |-> <<1057, 1083, 1080, 1074, 1082, 1080>>, productCode |-> <<48, 48, 57>>, number |-> <<>>]   \* "Сливки", "009"

ValueVocabulary == {V_milk, V_milk_number, V_noid}

\* the arguments of save_mappings: dicts of up to MaxMappings entries, as the
\* sequence of their items
SaveArguments ==
    UNION { {m \in [1..n -> [key : SaveKeys, value : ValueVocabulary]] :
                \A i, j \in 1..n : i # j => m[i].key # m[j].key}
            : n \in 0..MaxMappings }

\* the empty dict and the dicts of one entry
SmallSaveArguments == {m \in SaveArguments : Len(m) <= 1}

\* the dicts of more than one entry
LongSaveArguments == SaveArguments \ SmallSaveArguments

\* the dicts a file of the store holds at the start
StoredDicts ==
    {EmptyDict,
     DictSet(EmptyDict, K_cheese, StoredRecord(V_milk)),
     DictSet(DictSet(EmptyDict, K_cheese, StoredRecord(V_milk)), K_milk,
             StoredRecord(V_milk_number))}

NoCall == [name |-> "none", key |-> <<>>, mappings |-> <<>>, read |-> "ok", write |-> "ok"]

StoreIdle ==
    /\ mapFile = FileAbsent /\ stBefore = FileAbsent /\ stCall = NoCall
    /\ stRaised = FALSE /\ stResult = NoMapping

\* the store before the first call: no file yet, or a file written earlier
StoreInit ==
    /\ mapFile \in {FileAbsent} \cup {JsonFile(d) : d \in StoredDicts}
    /\ stBefore = mapFile /\ stCall = NoCall
    /\ stRaised = FALSE /\ stResult = NoMapping

\* a call of get_mapping under the read outcomes rds
CallGetMapping(rds) ==
    \E k \in KeyVocabulary, rd \in rds :
        LET r == GetMapping(mapFile, k, rd)
        IN  /\ stCall' = [NoCall EXCEPT !.name = "get", !.key = k, !.read = rd]
            /\ stBefore' = mapFile
            /\ stRaised' = r.raised
            /\ stResult' = r.result
            /\ UNCHANGED mapFile

\* a call of remove_mapping under the outcomes rds and wrs
CallRemoveMapping(rds, wrs) ==
    \E k \in KeyVocabulary, rd \in rds, wr \in wrs :
        LET r == RemoveMapping(mapFile, k, rd, wr)
        IN  /\ stCall' = [NoCall EXCEPT !.name = "remove", !.key = k, !.read = rd,
                                        !.write = wr]
            /\ stBefore' = mapFile
            /\ stRaised' = r.raised
            /\ stResult' = NoMapping
            /\ mapFile' = r.file

\* a call of save_mappings with one of the dicts args, under the outcomes rds
\* and wrs
CallSaveMappings(args, rds, wrs) ==
    \E m \in args, rd \in rds, wr \in wrs :
        LET r == SaveMappings(mapFile, m, rd, wr)
        IN  /\ stCall' = [NoCall EXCEPT !.name = "save", !.mappings = m, !.read = rd,
                                        !.write = wr]
            /\ stBefore' = mapFile
            /\ stRaised' = r.raised
            /\ stResult' = NoMapping
            /\ mapFile' = r.file

-----------------------------------------------------------------------------
(* The dialog: handlers/document.py and handlers/confirm.py *)

\* the users of the bot, each with a user_data of their own
Users == {"u1", "u2"}

\* products of the catalog, as search_product returns them
F_milk == [id |-> IdStr(1), name |-> <<1052, 1086, 1083, 1086, 1082, 1086, 32, 51, 46, 50, 37, 32, 49, 1083>>, productCode |-> <<48, 48, 49>>]   \* "Молоко 3.2% 1л", "001"
F_cream == [id |-> IdStr(2), name |-> <<1057, 1083, 1080, 1074, 1082, 1080, 32, 49, 48, 37>>, productCode |-> <<48, 48, 50>>]   \* "Сливки 10%", "002"

\* the products search_product can give
AllProducts == {F_milk, F_cream}

\* the products of the catalog of the dialog of one user
FlowProducts == {F_milk}

\* the products of the catalog of the dialog with a document of three lines
LongProducts == {F_milk, F_cream}

\* the catalogs of that dialog: the cream comes and goes
LongCatalogs == {{F_milk}, {F_milk, F_cream}}

\* a line without a match: {}
NoMatch == [id |-> <<>>, name |-> <<>>, productCode |-> <<>>]

\* short names of lines of one key
L_tea == <<1063, 1072, 1081, 32, 49>>   \* "Чай 1"
L_tea_wide == <<1063, 1072, 1081, 32, 32, 49>>   \* "Чай  1"

\* the names of the lines of the documents of a user: no line and one line
Documents == {<<>>, <<K_milk>>}

\* a document of three lines of one key, the first and the last of the same
\* name
LongDocuments == {<<L_tea, L_tea_wide, L_tea>>}

\* the user of the two who also chooses a warehouse, corrects lines and uses
\* /add, /iiko and /iiko_orgs
PairEditors == {"u2"}

\* the documents of two users at work at the same time: one line each, of
\* different names
DocumentsOf(u) == IF u = "u1" THEN {<<L_tea_wide>>} ELSE {<<K_cheese>>}

\* the values of pending_step: those of handlers/document.py, those the
\* handlers of handlers/add_product.py store, and "none" for a user_data
\* without the key
PendingSteps ==
    {"none", "products", "date", "comment", "warehouse", "edit_product_number",
     "edit_product_search", "add_name", "add_group", "add_confirm"}

\* user_data without a key: products, matches, date and store are
\* pending_products, pending_iiko_matches, whether pending_date and
\* pending_store_id are set; step is pending_step, editIdx is
\* editing_product_index (0 without the key) and found is edit_search_matches;
\* addUnit, addGroups and addGroup are whether add_product_unit,
\* add_groups_cache and add_product_group_id are set
NoPending ==
    [products |-> <<>>, matches |-> <<>>, date |-> FALSE, store |-> FALSE,
     step |-> "none", editIdx |-> 0, found |-> {},
     addUnit |-> FALSE, addGroups |-> FALSE, addGroup |-> FALSE]

\* no handler has run. Of a run of handle_document: lines are the lines its
\* loop went over and removed the keys remove_mapping was called for; of a
\* run that left the document pending, matches is iiko_matches, searched the
\* lines search_product was called for and found what it gave. Of a run of
\* handle_confirm_supply that called create_supply: server is what the server
\* did to its requests
NoHandler ==
    [handler |-> "none", user |-> "none", outcome |-> "none", lines |-> <<>>,
     matches |-> <<>>, searched |-> {}, found |-> <<>>, removed |-> {},
     server |-> "none"]

\* get_products of a new IikoClient: the empty list of a client that is not
\* configured, the product list of the server otherwise
ProductsOf(provider, catalog) == IF provider = "stub" THEN {} ELSE catalog

\* valid_ids
ValidIds(prods) == {p.id : p \in prods}

\* if saved and saved.get("id") and saved["id"] in valid_ids
UsesSaved(saved, validIds) == saved.ok /\ saved.id # <<>> /\ saved.id \in validIds

\* if saved and saved.get("id") and saved["id"] not in valid_ids
IsStale(saved, validIds) == saved.ok /\ saved.id # <<>> /\ saved.id \notin validIds

\* the match built from a saved mapping
MatchFromSaved(saved) ==
    [id |-> saved.id, name |-> saved.name, productCode |-> saved.productCode]

\* what matches[0] of search_product(pdf_name) can be, or {} for no match: a
\* product of the list get_products gives; which one is the similarity
\* library's matter
FirstResults(provider, catalog, pdfName) ==
    IF provider = "stub" \/ Strip(pdfName) = <<>> THEN {NoMatch}
    ELSE catalog \cup {NoMatch}

\* what search_product gives for the name n in a run that has searched the
\* names of acc.first already: the same result for the same name, since
\* every search of the run ranks the same product list
SearchResults(acc, provider, all, n) ==
    IF n \in DOMAIN acc.first THEN {acc.first[n]}
    ELSE FirstResults(provider, all, n)

\* the run of the loop after search_product gave m for the i-th line, of
\* name n, with the file and the removals as they are then
Searched(acc, i, n, m, file, removed) ==
    [store    |-> file,
     matches  |-> Append(acc.matches, m),
     found    |-> Append(acc.found, m),
     searched |-> acc.searched \cup {i},
     removed  |-> removed,
     raised   |-> FALSE,
     first    |-> DictSet(acc.first, n, m)]

\* the loop of handle_document over the lines from the i-th on: the runs it
\* can take. Every call of get_mapping and of remove_mapping reads the file on
\* its own, and remove_mapping writes it on its own: each call meets one of the
\* read outcomes rds and one of the write outcomes wrs. An exception of
\* get_mapping or remove_mapping ends the loop: raised, and iiko_matches,
\* local to the handler, is lost with it
RECURSIVE Reconcile(_, _, _, _, _, _, _, _)
Reconcile(lines, i, validIds, provider, all, rds, wrs, acc) ==
    IF i > Len(lines) \/ acc.raised THEN {acc}
    ELSE LET pdfName == Strip(OrEmpty(lines[i]))
             gots    == {GetMapping(acc.store, pdfName, rd) : rd \in rds}
             rems    == {RemoveMapping(acc.store, pdfName, rd, wr) : rd \in rds, wr \in wrs}
             removed == acc.removed \cup {NormalizeKey(pdfName)}
             results == SearchResults(acc, provider, all, pdfName)
         IN  UNION {
               IF got.raised THEN {[acc EXCEPT !.raised = TRUE, !.matches = <<>>]}
               ELSE IF UsesSaved(got.result, validIds)
               THEN Reconcile(lines, i + 1, validIds, provider, all, rds, wrs,
                              [acc EXCEPT !.matches = Append(@, MatchFromSaved(got.result)),
                                          !.found = Append(@, NoMatch)])
               ELSE IF IsStale(got.result, validIds)
               THEN UNION {
                      IF rem.raised
                      THEN {[acc EXCEPT !.raised = TRUE, !.matches = <<>>,
                                        !.store = rem.file, !.removed = removed]}
                      ELSE UNION { Reconcile(lines, i + 1, validIds, provider, all, rds, wrs,
                                             Searched(acc, i, pdfName, m, rem.file, removed))
                                   : m \in results }
                      : rem \in rems }
               ELSE UNION { Reconcile(lines, i + 1, validIds, provider, all, rds, wrs,
                                      Searched(acc, i, pdfName, m, acc.store, acc.removed))
                            : m \in results }
               : got \in gots }

\* mappings_to_save[pdf_name] = value: a dict keeps the place of a key it holds
RECURSIVE PutItem(_, _)
PutItem(items, e) ==
    IF items = <<>> THEN <<e>>
    ELSE IF Head(items).key = e.key THEN <<e>> \o Tail(items)
    ELSE <<Head(items)>> \o PutItem(Tail(items), e)

\* mappings_to_save of handle_confirm_supply, from the i-th line on
RECURSIVE MappingsToSave(_, _, _, _)
MappingsToSave(lines, matches, i, acc) ==
    IF i > Len(lines) THEN acc
    ELSE LET pdfName == Strip(OrEmpty(lines[i]))
             match   == matches[i]
         IN  IF match.id # <<>> /\ pdfName # <<>>
             THEN MappingsToSave(lines, matches, i + 1,
                      PutItem(acc, [key   |-> pdfName,
                                    value |-> [id |-> match.id, name |-> match.name,
                                               productCode |-> match.productCode,
                                               number |-> match.productCode]]))
             ELSE MappingsToSave(lines, matches, i + 1, acc)

\* what the server does to the requests of a run of create_supply: it answers
\* them all and takes the document ("ok"); a request made before the test of
\* the ids fails ("unanswered": get_token or get_products raises, or the
\* store or the counteragent that was not chosen cannot be found); or the
\* server refuses the document ("post_refused")
SupplyServerOutcomes == {"ok", "unanswered", "post_refused"}

\* a server that answers every request of create_supply
LongServerOutcomes == {"ok"}

\* every chosen id is the id of a product of the list
AllValid(ids, validIds) == \A k \in DOMAIN ids : ids[k] = <<>> \/ ids[k] \in validIds

\* the server outcomes a run of create_supply can meet: a client that is not
\* configured sends no request, and a document is refused only if it is sent
CanMeetSupply(provider, ids, validIds, srv) ==
    \/ srv = "ok"
    \/ srv = "unanswered" /\ provider = "ready"
    \/ srv = "post_refused" /\ provider = "ready" /\ AllValid(ids, validIds)

\* create_supply that posts the document before it looks at the ids
CreateSupplyPostFirst(provider, ids, validIds, srv) ==
    IF provider = "stub" \/ srv = "unanswered" THEN "error"
    ELSE IF srv = "post_refused" THEN "post_failed"
    ELSE IF ~AllValid(ids, validIds) THEN "post_then_group_error"
    ELSE "created"

\* create_supply: "error" (ValueError of a client that is not configured, or
\* the exception of a store, a counteragent, a token or a product list that
\* cannot be had), "group_error" (ProductGroupError), "post_failed" (the server
\* refuses the document) or "created"
CreateSupply(provider, ids, validIds, srv) ==
    IF provider = "stub" \/ srv = "unanswered" THEN "error"
    ELSE IF ~AllValid(ids, validIds) THEN "group_error"
    ELSE IF srv = "post_refused" THEN "post_failed"
    ELSE "created"

\* the outcomes of a confirmation in which a document went to the server
PostedOutcomes ==
    {"created", "created_save_failed", "post_failed", "post_then_group_error"}

FlowIdle ==
    /\ fProvider = "idle" /\ fReadOnly = TRUE /\ fCatalog = {}
    /\ fStore = FileAbsent
    /\ fData = [u \in Users |-> NoPending]
    /\ fLast = NoHandler

\* the bot starts: configured or not, in read-only mode or not, with the file
\* of mappings an earlier run left
FlowInit ==
    /\ fProvider \in {"stub", "ready"}
    /\ fReadOnly \in BOOLEAN
    /\ fCatalog \in SUBSET FlowProducts
    /\ fProvider = "stub" => fCatalog = {}
    /\ fStore \in {FileAbsent,
                   JsonFile(DictSet(EmptyDict, K_milk, StoredRecord(V_milk_number)))}
    /\ fData = [u \in Users |-> NoPending]
    /\ fLast = NoHandler

\* the bot starts configured, outside the read-only mode, with every product
\* in the catalog and without a file of mappings
FlowLongInit ==
    /\ fProvider = "ready"
    /\ fReadOnly = FALSE
    /\ fCatalog = LongProducts
    /\ fStore = FileAbsent
    /\ fData = [u \in Users |-> NoPending]
    /\ fLast = NoHandler

\* the bot of two users starts: configured, outside the read-only mode, with
\* every product in the catalog
FlowPairInit ==
    /\ fProvider = "ready"
    /\ fReadOnly = FALSE
    /\ fCatalog = FlowProducts
    /\ fStore = JsonFile(DictSet(EmptyDict, L_tea, StoredRecord(V_milk_number)))
    /\ fData = [u \in Users |-> NoPending]
    /\ fLast = NoHandler

\* what the server does to the requests of a run of handle_document: it
\* answers them all, it leaves the product list unanswered (get_products
\* raises before the loop), or it leaves the employees request of
\* get_suppliers unanswered (an exception after the loop, for a document
\* that names a supplier)
ServerOutcomes == {"ok", "products_unanswered", "suppliers_unanswered"}

\* the server outcomes a run can meet: a client that is not configured sends
\* no request
CanMeet(provider, srv) == srv = "ok" \/ provider = "ready"

\* handle_document: user u sends a document with the lines d; rds and wrs are
\* what the file system can do to each read and to each write of the store.
\* An exception ends the run at the `except Exception` of the handler
\* ("error") before user_data is written; what remove_mapping did to the file
\* until then stays
HandleDocument(u, d, rds, wrs) ==
    /\ UNCHANGED <<fProvider, fReadOnly, fCatalog>>
    /\ IF d = <<>>
       THEN /\ fLast' = [NoHandler EXCEPT !.handler = "document", !.user = u,
                                          !.outcome = "no_products"]
            /\ UNCHANGED <<fStore, fData>>
       ELSE \E srv \in ServerOutcomes :
              /\ CanMeet(fProvider, srv)
              /\ IF srv = "products_unanswered"
                 THEN /\ fLast' = [NoHandler EXCEPT !.handler = "document", !.user = u,
                                                    !.outcome = "error"]
                      /\ UNCHANGED <<fStore, fData>>
                 ELSE LET all   == ProductsOf(fProvider, fCatalog)
                          begin == [store |-> fStore, matches |-> <<>>,
                                    found |-> <<>>, searched |-> {},
                                    removed |-> {}, raised |-> FALSE,
                                    first |-> EmptyDict]
                      IN  \E r \in Reconcile(d, 1, ValidIds(all), fProvider, all,
                                             rds, wrs, begin) :
                            IF r.raised \/ srv = "suppliers_unanswered"
                            THEN /\ fLast' = [NoHandler EXCEPT
                                                 !.handler = "document", !.user = u,
                                                 !.outcome = "error", !.lines = d,
                                                 !.removed = r.removed]
                                 /\ fStore' = r.store
                                 /\ fData' = fData
                            ELSE /\ fLast' = [NoHandler EXCEPT
                                                 !.handler = "document", !.user = u,
                                                 !.outcome = "pending", !.lines = d,
                                                 !.matches = r.matches,
                                                 !.searched = r.searched,
                                                 !.found = r.found,
                                                 !.removed = r.removed]
                                 /\ fStore' = r.store
                                 /\ fData' = [fData EXCEPT ![u].products = d,
                                                           ![u].matches = r.matches,
                                                           ![u].step = "products"]

\* a handler of user u that touches nothing but user_data, and leaves it as ud
Ends(u, ud) ==
    /\ fData' = [fData EXCEPT ![u] = ud]
    /\ fLast' = [NoHandler EXCEPT !.handler = "session", !.user = u]
    /\ UNCHANGED <<fProvider, fReadOnly, fCatalog, fStore>>

\* user_data after the pops of editing_product_index, edit_search_matches and
\* pending_step
EditClosed(ud) == [ud EXCEPT !.editIdx = 0, !.found = {}, !.step = "none"]

\* user_data after the pops of handle_confirm_supply and handle_cancel_supply:
\* the keys of the pending supply go, those of /add stay
SupplyPopped(ud) ==
    [NoPending EXCEPT !.addUnit = ud.addUnit, !.addGroups = ud.addGroups,
                      !.addGroup = ud.addGroup]

\* _clear_add_state
AddCleared(ud) ==
    [ud EXCEPT !.step = "none", !.addUnit = FALSE, !.addGroups = FALSE,
               !.addGroup = FALSE]

\* handle_confirm_products: the step of the date opens, unless a date is
\* pending already
HandleConfirmProducts(u) ==
    IF fData[u].date
    THEN Ends(u, fData[u])
    ELSE Ends(u, [fData[u] EXCEPT !.step = "date"])

\* the numbers a user types at the step of the line number, and those of the
\* buttons of handle_pick_product: 0, which is also what a text that is no
\* number counts as, the first line of a document, and a number past the last
\* line
TypedNumbers == {0, 1, 4}

\* the numbers of a user who corrects no line
NoLineNumbers == {0}

\* handle_extra_input: a text message of user u, taken by the step that is
\* pending; numbers are the numbers the user can type
\* (the comment step sets pending_step before it asks get_stores, which gives
\* the configured list when the server gives none, so its list is never empty;
\* a call that raises leaves the step as set)
HandleExtraInput(u, numbers) ==
    LET ud == fData[u]
    IN  IF ud.step = "edit_product_number"
        THEN \E idx \in numbers :
               IF idx < 1 \/ idx > Len(ud.products)
               THEN Ends(u, ud)
               ELSE Ends(u, [ud EXCEPT !.editIdx = idx, !.step = "edit_product_search"])
        ELSE IF ud.step = "edit_product_search"
        THEN IF ud.editIdx = 0
             THEN Ends(u, [ud EXCEPT !.step = "none"])
             ELSE \/ Ends(u, EditClosed(ud))
                  \/ \E m \in SUBSET ProductsOf(fProvider, fCatalog) :
                       IF m = {} THEN Ends(u, ud)
                       ELSE Ends(u, [ud EXCEPT !.found = m])
        ELSE IF ud.step = "date"
        THEN \/ Ends(u, ud)
             \/ Ends(u, [ud EXCEPT !.date = TRUE, !.step = "comment"])
        ELSE IF ud.step = "comment"
        THEN Ends(u, [ud EXCEPT !.step = "warehouse"])
        ELSE Ends(u, ud)

\* handle_warehouse_selection
HandleWarehouseSelection(u) ==
    Ends(u, [fData[u] EXCEPT !.store = TRUE, !.step = "none"])

\* handle_edit_product
HandleEditProduct(u) ==
    IF fData[u].products = <<>>
    THEN Ends(u, fData[u])
    ELSE Ends(u, [fData[u] EXCEPT !.step = "edit_product_number"])

\* handle_pick_product: the button of the product p for the line idx
HandlePickProduct(u, idx, p) ==
    LET ud == fData[u]
    IN  IF idx < 1 \/ idx > Len(ud.products)
        THEN Ends(u, ud)
        ELSE IF \A x \in ud.found : x.id # p.id
        THEN Ends(u, ud)
        ELSE Ends(u, EditClosed([ud EXCEPT !.matches[idx] =
                                     CHOOSE x \in ud.found : x.id = p.id]))

\* handle_cancel_edit
HandleCancelEdit(u) == Ends(u, EditClosed(fData[u]))

\* handle_iiko_status and handle_iiko_orgs of handlers/iiko_status.py: they
\* ask the server and answer the user
HandleIikoStatus(u) == Ends(u, fData[u])

HandleIikoOrgs(u) == Ends(u, fData[u])

\* handle_add_command of handlers/add_product.py: pending_step is "add_name".
\* No handler takes the name that is typed then (handle_add_name_input is
\* called by none), so add_product_name is never set
HandleAddCommand(u) == Ends(u, [AddCleared(fData[u]) EXCEPT !.step = "add_name"])

\* what get_product_groups gives handle_add_unit_choice: it raises, it gives
\* no group, or it gives groups. iiko_client.py defines no get_product_groups,
\* which makes the call raise
GroupsOutcomes == {"raises", "empty", "groups"}

\* get_product_groups as iiko_client.py has it: the call raises
NoGroups == {"raises"}

\* handle_add_unit_choice: the button of a unit the handler knows, or of
\* another text
HandleAddUnitChoice(u, groups) ==
    \/ Ends(u, fData[u])
    \/ \E g \in groups :
         IF g = "groups"
         THEN Ends(u, [fData[u] EXCEPT !.addUnit = TRUE, !.addGroups = TRUE,
                                       !.step = "add_group"])
         ELSE Ends(u, AddCleared(fData[u]))

\* handle_add_groups_page
HandleAddGroupsPage(u) == Ends(u, fData[u])

\* handle_add_group_choice: the button of a group of add_groups_cache, or of
\* a group it does not hold
HandleAddGroupChoice(u) ==
    \/ Ends(u, fData[u])
    \/ /\ fData[u].addGroups
       /\ Ends(u, [fData[u] EXCEPT !.addGroup = TRUE, !.step = "add_confirm"])

\* handle_add_confirm: without add_product_name it ends at `not name`
HandleAddConfirm(u) == Ends(u, AddCleared(fData[u]))

\* handle_add_cancel
HandleAddCancel(u) == Ends(u, AddCleared(fData[u]))

\* start of main.py: user_data.clear()
Start(u) == Ends(u, NoPending)

\* handle_cancel_supply
HandleCancelSupply(u) ==
    /\ fData' = [fData EXCEPT ![u] = SupplyPopped(fData[u])]
    /\ fLast' = [NoHandler EXCEPT !.handler = "cancel", !.user = u]
    /\ UNCHANGED <<fProvider, fReadOnly, fCatalog, fStore>>

\* handle_confirm_supply; srvs is what the server can do to the requests of
\* create_supply, rds and wrs what the file system can do to the read and to
\* the write of save_mappings. An exception of save_mappings comes after
\* create_supply has returned and is caught by the `except Exception` of the
\* handler: "created_save_failed"
ConfirmSupply(u, srvs, rds, wrs) ==
    LET ud  == fData[u]
        ids == [i \in DOMAIN ud.products |-> ud.matches[i].id]
        end(outcome, srv) ==
            fLast' = [NoHandler EXCEPT !.handler = "confirm", !.user = u,
                                       !.outcome = outcome, !.server = srv]
    IN  /\ UNCHANGED <<fProvider, fReadOnly, fCatalog>>
        /\ IF ud.products = <<>>
           THEN end("no_data", "none") /\ UNCHANGED <<fStore, fData>>
           ELSE IF ~ud.date
           THEN end("no_date", "none") /\ UNCHANGED <<fStore, fData>>
           ELSE IF fReadOnly
           THEN /\ end("read_only", "none")
                /\ fData' = [fData EXCEPT ![u] = SupplyPopped(ud)]
                /\ UNCHANGED fStore
           ELSE IF \E i \in DOMAIN ids : ids[i] = <<>>
           THEN end("not_found", "none") /\ UNCHANGED <<fStore, fData>>
           ELSE \E srv \in srvs :
                  /\ CanMeetSupply(fProvider, ids,
                                   ValidIds(ProductsOf(fProvider, fCatalog)), srv)
                  /\ LET result == CreateSupply(fProvider, ids,
                                       ValidIds(ProductsOf(fProvider, fCatalog)), srv)
                         toSave == MappingsToSave(ud.products, ud.matches, 1, <<>>)
                     IN  IF result # "created"
                         THEN end(result, srv) /\ UNCHANGED <<fStore, fData>>
                         ELSE \E rd \in rds, wr \in wrs :
                                LET saved == SaveMappings(fStore, toSave, rd, wr)
                                IN  IF saved.raised
                                    THEN /\ end("created_save_failed", srv)
                                         /\ fStore' = saved.file
                                         /\ UNCHANGED fData
                                    ELSE /\ end("created", srv)
                                         /\ fStore' = saved.file
                                         /\ fData' = [fData EXCEPT ![u] = SupplyPopped(ud)]

\* a confirmation that leaves the pending supply in user_data when the bot is
\* in read-only mode
ConfirmKeepingSession(u, srvs, rds, wrs) ==
    IF fReadOnly /\ fData[u].products # <<>> /\ fData[u].date
    THEN /\ fLast' = [NoHandler EXCEPT !.handler = "confirm", !.user = u,
                                       !.outcome = "read_only"]
         /\ UNCHANGED <<fProvider, fReadOnly, fCatalog, fStore, fData>>
    ELSE ConfirmSupply(u, srvs, rds, wrs)

\* handle_confirm_supply
HandleConfirmSupply(u, srvs, rds, wrs) == ConfirmSupply(u, srvs, rds, wrs)

\* the catalog of the server changes to another one of cats: products come,
\* go, or become groups
CatalogChanges(cats) ==
    /\ fProvider = "ready"
    /\ \E c \in cats :
         /\ c # fCatalog
         /\ fCatalog' = c
    /\ fLast' = [NoHandler EXCEPT !.handler = "catalog"]
    /\ UNCHANGED <<fProvider, fReadOnly, fStore, fData>>

-----------------------------------------------------------------------------
(* One call of _search_in_products *)

\* products with a code that is a word: one that carries the word in its name
\* and one that does not
P_abc_named == [id |-> IdStr(8), name |-> <<1057, 1099, 1088, 32, 97, 98, 99, 49, 50>>, productCode |-> <<97, 98, 99, 49, 50>>]   \* "Сыр abc12", "abc12"
P_abc_code == [id |-> IdStr(9), name |-> <<1057, 1086, 1091, 1089>>, productCode |-> <<97, 98, 99, 49, 50>>]   \* "Соус", "abc12"

RankProducts == {P_granat, P_granat_red, P_avocado, P_abc_named, P_abc_code}

RankLists ==
    UNION { {c \in [1..n -> RankProducts] : \A i, j \in 1..n : i # j => c[i] # c[j]}
            : n \in 0..MaxProducts }

R_granat == <<1075, 1088, 1072, 1085, 1072, 1090>>   \* "гранат"
R_granat_red == <<1075, 1088, 1072, 1085, 1072, 1090, 32, 1082, 1088, 1072, 1089, 1085, 1099, 1081>>   \* "гранат красный"
R_granat_juice == <<1075, 1088, 1072, 1085, 1072, 1090, 1086, 1074, 1099, 1081, 32, 1089, 1086, 1082>>   \* "гранатовый сок"
R_abc12 == <<97, 98, 99, 49, 50>>   \* "abc12"

\* the texts searched for: the name of a product, the first word of one, two
\* words of which one is near a word of a name, a code, and a text without a
\* significant word
RankQueries == {R_granat, R_granat_red, R_granat_juice, R_abc12, Q_short}

RankIdle ==
    /\ rProducts = <<>> /\ rQuery = <<>> /\ rLimit = 0 /\ rMinScore = 0
    /\ rFuzz = <<>> /\ rRanked = <<>> /\ rResult = <<>> /\ rPhase = "idle"

RankInit ==
    /\ rProducts \in RankLists
    /\ rQuery \in RankQueries
    /\ rLimit \in Limits /\ rMinScore \in MinScores
    /\ rFuzz \in [1..Len(rProducts) -> ScoreValues]
    /\ rRanked = <<>> /\ rResult = <<>> /\ rPhase = "called"

\* _search_in_products(products, query_lower, limit, min_score)
SearchInProductsCall ==
    /\ rPhase = "called"
    /\ rRanked' = SortMatches(MatchesFrom(rProducts, rQuery, rFuzz, 1))
    /\ rResult' = SearchInProducts(rProducts, rQuery, rLimit, rMinScore, rFuzz)
    /\ rPhase' = "returned"
    /\ UNCHANGED <<rProducts, rQuery, rLimit, rMinScore, rFuzz>>

-----------------------------------------------------------------------------
(* One document given to both adapters *)

\* rows of the document
MaxPairRows == 3

\* the rows the document is made of: the two headers, a plain product row,
\* a totals row, a row of 4 cells, a row whose name is digits, a row numbered
\* "1.0" and a row with the quantity 0
PairRowVocabulary ==
    { RowHeaderStd, RowHeaderNameLast, RowMilk, RowTotal, RowShort4,
      RowDigitsName, RowFloatNum, RowZeroQty, RowNanQty, RowExpQty, RowInfNum }

PairDocuments == UNION { [1..n -> PairRowVocabulary] : n \in 0..MaxPairRows }

\* the adapter has not run
NotRun == [raised |-> FALSE, products |-> <<>>, done |-> FALSE]

\* the column map, the exception flag and the products after a row of outcome o
AfterRow(st, o) ==
    [col |-> o.col, raised |-> (o.kind = "raise"), products |-> st.products \o o.item]

\* parse_invoice_pdf over the rows of one table, from the row `rows` begins
\* with on; an exception ends the call
RECURSIVE ParsePdfRows(_, _)
ParsePdfRows(rows, st) ==
    IF rows = <<>> \/ st.raised THEN st
    ELSE ParsePdfRows(Tail(rows), AfterRow(st, PdfRow(Head(rows), st.col)))

\* parse_invoice_pdf on a document of one page with one table
ParseInvoicePdf(rows) ==
    LET r == ParsePdfRows(rows, [col |-> NoColumns, raised |-> FALSE, products |-> <<>>])
    IN  [raised |-> r.raised, products |-> IF r.raised THEN <<>> ELSE r.products,
         done |-> TRUE]

\* parse_excel over the rows of the sheet from the i-th on; an exception ends
\* the call
RECURSIVE ParseSheetRows(_, _, _)
ParseSheetRows(rows, i, st) ==
    IF i > Len(rows) \/ st.raised THEN st
    ELSE ParseSheetRows(rows, i + 1, AfterRow(st, ExcelRow(rows[i], st.col, i)))

\* parse_excel on a sheet
ParseExcel(rows) ==
    LET r == ParseSheetRows(rows, 1, [col |-> NoColumns, raised |-> FALSE, products |-> <<>>])
    IN  [raised |-> r.raised, products |-> IF r.raised THEN <<>> ELSE r.products,
         done |-> TRUE]

PairIdle == xRows = <<>> /\ xPdf = NotRun /\ xExcel = NotRun

PairInit == xRows \in PairDocuments /\ xPdf = NotRun /\ xExcel = NotRun

\* parse_invoice_pdf(path) on the document
ParseInvoicePdfCall ==
    /\ ~xPdf.done
    /\ xPdf' = ParseInvoicePdf(xRows)
    /\ UNCHANGED <<xRows, xExcel>>

\* parse_excel(path) on the document
ParseExcelCall ==
    /\ ~xExcel.done
    /\ xExcel' = ParseExcel(xRows)
    /\ UNCHANGED <<xRows, xPdf>>

-----------------------------------------------------------------------------
(* The history of the dialog *)

\* what the file system does to a write of the store in a handler: the
\* outcomes that leave a file of JSON text
ConfirmWriteOutcomes == {"ok", "mkdir_error", "open_error"}

\* the outcomes of a confirmation whose create_supply returned a supply
SupplyCreatedOutcomes == {"created", "created_save_failed"}

HistIdle == fDone = [u \in Users |-> FALSE]

\* the history of the step just taken: a supply created and a cancellation
\* close the session of the user, a processed document opens one
TrackDone ==
    fDone' = [u \in Users |->
                IF fLast'.user # u THEN fDone[u]
                ELSE IF fLast'.handler = "cancel" THEN TRUE
                ELSE IF fLast'.handler = "confirm"
                        /\ fLast'.outcome \in SupplyCreatedOutcomes THEN TRUE
                ELSE IF fLast'.handler = "document" /\ fLast'.outcome = "pending"
                     THEN FALSE
                ELSE fDone[u]]

-----------------------------------------------------------------------------
(* Specifications *)

\* the catalog: a snapshot is fetched and parsed, and the exclusion builder
\* is run again on its items
InitCatalog == CatInit /\ ParseIdle /\ SearchIdle /\ SupplierIdle /\ StoreIdle /\ FlowIdle /\ RankIdle /\ PairIdle /\ HistIdle

NextCatalog ==
    \/ GetProducts /\ UNCHANGED <<parseVars, searchVars, supplierVars, storeVars, flowVars, rankVars, pairVars, histVars>>
    \/ BuildAgain /\ UNCHANGED <<parseVars, searchVars, supplierVars, storeVars, flowVars, rankVars, pairVars, histVars>>

SpecCatalog == InitCatalog /\ [][NextCatalog]_vars

\* one document read by one of the two adapters
InitParse == ParseInit /\ CatIdle /\ SearchIdle /\ SupplierIdle /\ StoreIdle /\ FlowIdle /\ RankIdle /\ PairIdle /\ HistIdle

NextParse ==
    \/ PdfProcessRow /\ UNCHANGED <<catVars, searchVars, supplierVars, storeVars, flowVars, rankVars, pairVars, histVars>>
    \/ PdfNextTable /\ UNCHANGED <<catVars, searchVars, supplierVars, storeVars, flowVars, rankVars, pairVars, histVars>>
    \/ PdfNextPage /\ UNCHANGED <<catVars, searchVars, supplierVars, storeVars, flowVars, rankVars, pairVars, histVars>>
    \/ ExcelProcessRow /\ UNCHANGED <<catVars, searchVars, supplierVars, storeVars, flowVars, rankVars, pairVars, histVars>>
    \/ ParseReturn /\ UNCHANGED <<catVars, searchVars, supplierVars, storeVars, flowVars, rankVars, pairVars, histVars>>

SpecParse == InitParse /\ [][NextParse]_vars

\* one call of search_product
InitSearch == SearchInit /\ CatIdle /\ ParseIdle /\ SupplierIdle /\ StoreIdle /\ FlowIdle /\ RankIdle /\ PairIdle /\ HistIdle

NextSearch ==
    \/ SearchCall /\ UNCHANGED <<catVars, parseVars, supplierVars, storeVars, flowVars, rankVars, pairVars, histVars>>
    \/ SearchFuzzy /\ UNCHANGED <<catVars, parseVars, supplierVars, storeVars, flowVars, rankVars, pairVars, histVars>>
    \/ SearchFirstTwoWords /\ UNCHANGED <<catVars, parseVars, supplierVars, storeVars, flowVars, rankVars, pairVars, histVars>>
    \/ SearchLongestWord /\ UNCHANGED <<catVars, parseVars, supplierVars, storeVars, flowVars, rankVars, pairVars, histVars>>
    \/ SearchFryPhrase /\ UNCHANGED <<catVars, parseVars, supplierVars, storeVars, flowVars, rankVars, pairVars, histVars>>

SpecSearch == InitSearch /\ [][NextSearch]_vars

\* one call of match_supplier
InitSupplier == SupplierInit /\ CatIdle /\ ParseIdle /\ SearchIdle /\ StoreIdle /\ FlowIdle /\ RankIdle /\ PairIdle /\ HistIdle

NextSupplier ==
    \/ MatchSupplierCall /\ UNCHANGED <<catVars, parseVars, searchVars, storeVars, flowVars, rankVars, pairVars, histVars>>

SpecSupplier == InitSupplier /\ [][NextSupplier]_vars

\* calls of the store on a file system whose reads and writes can fail; a save
\* of more than one entry is written without failure
InitStore == StoreInit /\ CatIdle /\ ParseIdle /\ SearchIdle /\ SupplierIdle /\ FlowIdle /\ RankIdle /\ PairIdle /\ HistIdle

NextStore ==
    \/ CallGetMapping(ReadOutcomes)
           /\ UNCHANGED <<catVars, parseVars, searchVars, supplierVars, flowVars, rankVars, pairVars, histVars>>
    \/ CallRemoveMapping(ReadOutcomes, WriteOutcomes)
           /\ UNCHANGED <<catVars, parseVars, searchVars, supplierVars, flowVars, rankVars, pairVars, histVars>>
    \/ CallSaveMappings(SmallSaveArguments, ReadOutcomes, WriteOutcomes)
           /\ UNCHANGED <<catVars, parseVars, searchVars, supplierVars, flowVars, rankVars, pairVars, histVars>>
    \/ CallSaveMappings(LongSaveArguments, ReadOutcomes, {"ok"})
           /\ UNCHANGED <<catVars, parseVars, searchVars, supplierVars, flowVars, rankVars, pairVars, histVars>>

SpecStore == InitStore /\ [][NextStore]_vars

\* the dialog of one user: every handler main.py registers and that
\* handlers/ defines (handle_upload and handle_document_type_choice are named
\* by main.py and defined nowhere), on a file system that can fail the reads
\* and the writes of the store and with a server that can leave a request
\* unanswered
InitFlow ==
    FlowInit /\ CatIdle /\ ParseIdle /\ SearchIdle /\ SupplierIdle /\ StoreIdle /\ RankIdle
        /\ PairIdle /\ HistIdle

NextFlow ==
    \/ Start("u1") /\ TrackDone
           /\ UNCHANGED <<catVars, parseVars, searchVars, supplierVars, storeVars, rankVars, pairVars>>
    \/ (\E d \in Documents : HandleDocument("u1", d, ReadOutcomes, ConfirmWriteOutcomes)) /\ TrackDone
           /\ UNCHANGED <<catVars, parseVars, searchVars, supplierVars, storeVars, rankVars, pairVars>>
    \/ HandleConfirmProducts("u1") /\ TrackDone
           /\ UNCHANGED <<catVars, parseVars, searchVars, supplierVars, storeVars, rankVars, pairVars>>
    \/ HandleExtraInput("u1", TypedNumbers) /\ TrackDone
           /\ UNCHANGED <<catVars, parseVars, searchVars, supplierVars, storeVars, rankVars, pairVars>>
    \/ HandleWarehouseSelection("u1") /\ TrackDone
           /\ UNCHANGED <<catVars, parseVars, searchVars, supplierVars, storeVars, rankVars, pairVars>>
    \/ HandleEditProduct("u1") /\ TrackDone
           /\ UNCHANGED <<catVars, parseVars, searchVars, supplierVars, storeVars, rankVars, pairVars>>
    \/ (\E idx \in TypedNumbers, p \in FlowProducts : HandlePickProduct("u1", idx, p)) /\ TrackDone
           /\ UNCHANGED <<catVars, parseVars, searchVars, supplierVars, storeVars, rankVars, pairVars>>
    \/ HandleCancelEdit("u1") /\ TrackDone
           /\ UNCHANGED <<catVars, parseVars, searchVars, supplierVars, storeVars, rankVars, pairVars>>
    \/ HandleConfirmSupply("u1", SupplyServerOutcomes, ReadOutcomes, ConfirmWriteOutcomes) /\ TrackDone
           /\ UNCHANGED <<catVars, parseVars, searchVars, supplierVars, storeVars, rankVars, pairVars>>
    \/ HandleCancelSupply("u1") /\ TrackDone
           /\ UNCHANGED <<catVars, parseVars, searchVars, supplierVars, storeVars, rankVars, pairVars>>
    \/ HandleAddCommand("u1") /\ TrackDone
           /\ UNCHANGED <<catVars, parseVars, searchVars, supplierVars, storeVars, rankVars, pairVars>>
    \/ HandleAddUnitChoice("u1", GroupsOutcomes) /\ TrackDone
           /\ UNCHANGED <<catVars, parseVars, searchVars, supplierVars, storeVars, rankVars, pairVars>>
    \/ HandleAddGroupChoice("u1") /\ TrackDone
           /\ UNCHANGED <<catVars, parseVars, searchVars, supplierVars, storeVars, rankVars, pairVars>>
    \/ HandleAddGroupsPage("u1") /\ TrackDone
           /\ UNCHANGED <<catVars, parseVars, searchVars, supplierVars, storeVars, rankVars, pairVars>>
    \/ HandleAddConfirm("u1") /\ TrackDone
           /\ UNCHANGED <<catVars, parseVars, searchVars, supplierVars, storeVars, rankVars, pairVars>>
    \/ HandleAddCancel("u1") /\ TrackDone
           /\ UNCHANGED <<catVars, parseVars, searchVars, supplierVars, storeVars, rankVars, pairVars>>
    \/ HandleIikoStatus("u1") /\ TrackDone
           /\ UNCHANGED <<catVars, parseVars, searchVars, supplierVars, storeVars, rankVars, pairVars>>
    \/ HandleIikoOrgs("u1") /\ TrackDone
           /\ UNCHANGED <<catVars, parseVars, searchVars, supplierVars, storeVars, rankVars, pairVars>>
    \/ CatalogChanges(SUBSET FlowProducts) /\ TrackDone
           /\ UNCHANGED <<catVars, parseVars, searchVars, supplierVars, storeVars, rankVars, pairVars>>

SpecFlow == InitFlow /\ [][NextFlow]_vars

\* the dialog of one user who sends documents of three lines and corrects no
\* line, with a catalog of two products, a server that answers every request
\* of create_supply, and without get_product_groups
InitFlowLong ==
    FlowLongInit /\ CatIdle /\ ParseIdle /\ SearchIdle /\ SupplierIdle /\ StoreIdle /\ RankIdle
        /\ PairIdle /\ HistIdle

NextFlowLong ==
    \/ Start("u1") /\ TrackDone
           /\ UNCHANGED <<catVars, parseVars, searchVars, supplierVars, storeVars, rankVars, pairVars>>
    \/ (\E d \in LongDocuments : HandleDocument("u1", d, ReadOutcomes, ConfirmWriteOutcomes)) /\ TrackDone
           /\ UNCHANGED <<catVars, parseVars, searchVars, supplierVars, storeVars, rankVars, pairVars>>
    \/ HandleConfirmProducts("u1") /\ TrackDone
           /\ UNCHANGED <<catVars, parseVars, searchVars, supplierVars, storeVars, rankVars, pairVars>>
    \/ HandleExtraInput("u1", NoLineNumbers) /\ TrackDone
           /\ UNCHANGED <<catVars, parseVars, searchVars, supplierVars, storeVars, rankVars, pairVars>>
    \/ HandleWarehouseSelection("u1") /\ TrackDone
           /\ UNCHANGED <<catVars, parseVars, searchVars, supplierVars, storeVars, rankVars, pairVars>>
    \/ HandleEditProduct("u1") /\ TrackDone
           /\ UNCHANGED <<catVars, parseVars, searchVars, supplierVars, storeVars, rankVars, pairVars>>
    \/ (\E idx \in NoLineNumbers, p \in LongProducts : HandlePickProduct("u1", idx, p)) /\ TrackDone
           /\ UNCHANGED <<catVars, parseVars, searchVars, supplierVars, storeVars, rankVars, pairVars>>
    \/ HandleCancelEdit("u1") /\ TrackDone
           /\ UNCHANGED <<catVars, parseVars, searchVars, supplierVars, storeVars, rankVars, pairVars>>
    \/ HandleConfirmSupply("u1", LongServerOutcomes, ReadOutcomes, ConfirmWriteOutcomes) /\ TrackDone
           /\ UNCHANGED <<catVars, parseVars, searchVars, supplierVars, storeVars, rankVars, pairVars>>
    \/ HandleCancelSupply("u1") /\ TrackDone
           /\ UNCHANGED <<catVars, parseVars, searchVars, supplierVars, storeVars, rankVars, pairVars>>
    \/ HandleAddCommand("u1") /\ TrackDone
           /\ UNCHANGED <<catVars, parseVars, searchVars, supplierVars, storeVars, rankVars, pairVars>>
    \/ HandleAddUnitChoice("u1", NoGroups) /\ TrackDone
           /\ UNCHANGED <<catVars, parseVars, searchVars, supplierVars, storeVars, rankVars, pairVars>>
    \/ HandleAddGroupChoice("u1") /\ TrackDone
           /\ UNCHANGED <<catVars, parseVars, searchVars, supplierVars, storeVars, rankVars, pairVars>>
    \/ HandleAddGroupsPage("u1") /\ TrackDone
           /\ UNCHANGED <<catVars, parseVars, searchVars, supplierVars, storeVars, rankVars, pairVars>>
    \/ HandleAddConfirm("u1") /\ TrackDone
           /\ UNCHANGED <<catVars, parseVars, searchVars, supplierVars, storeVars, rankVars, pairVars>>
    \/ HandleAddCancel("u1") /\ TrackDone
           /\ UNCHANGED <<catVars, parseVars, searchVars, supplierVars, storeVars, rankVars, pairVars>>
    \/ HandleIikoStatus("u1") /\ TrackDone
           /\ UNCHANGED <<catVars, parseVars, searchVars, supplierVars, storeVars, rankVars, pairVars>>
    \/ HandleIikoOrgs("u1") /\ TrackDone
           /\ UNCHANGED <<catVars, parseVars, searchVars, supplierVars, storeVars, rankVars, pairVars>>
    \/ CatalogChanges(LongCatalogs) /\ TrackDone
           /\ UNCHANGED <<catVars, parseVars, searchVars, supplierVars, storeVars, rankVars, pairVars>>

SpecFlowLong == InitFlowLong /\ [][NextFlowLong]_vars

\* the dialogs of two users, whose updates the application handles one after
\* the other, with a catalog that stays as it is; each user sends documents
\* of one line, one of them also chooses a warehouse and uses the other
\* commands, and get_product_groups raises
InitFlowPair ==
    FlowPairInit /\ CatIdle /\ ParseIdle /\ SearchIdle /\ SupplierIdle /\ StoreIdle /\ RankIdle
        /\ PairIdle /\ HistIdle

NextFlowPair ==
    \/ (\E u \in Users : Start(u))
           /\ UNCHANGED <<catVars, parseVars, searchVars, supplierVars, storeVars, rankVars, pairVars, histVars>>
    \/ (\E u \in Users : \E d \in DocumentsOf(u) : HandleDocument(u, d, ReadOutcomes, ConfirmWriteOutcomes))
           /\ UNCHANGED <<catVars, parseVars, searchVars, supplierVars, storeVars, rankVars, pairVars, histVars>>
    \/ (\E u \in Users : HandleConfirmProducts(u))
           /\ UNCHANGED <<catVars, parseVars, searchVars, supplierVars, storeVars, rankVars, pairVars, histVars>>
    \/ (\E u \in Users : HandleExtraInput(u, NoLineNumbers))
           /\ UNCHANGED <<catVars, parseVars, searchVars, supplierVars, storeVars, rankVars, pairVars, histVars>>
    \/ (\E u \in PairEditors : HandleWarehouseSelection(u))
           /\ UNCHANGED <<catVars, parseVars, searchVars, supplierVars, storeVars, rankVars, pairVars, histVars>>
    \/ (\E u \in PairEditors : HandleEditProduct(u))
           /\ UNCHANGED <<catVars, parseVars, searchVars, supplierVars, storeVars, rankVars, pairVars, histVars>>
    \/ (\E u \in PairEditors, idx \in NoLineNumbers, p \in FlowProducts : HandlePickProduct(u, idx, p))
           /\ UNCHANGED <<catVars, parseVars, searchVars, supplierVars, storeVars, rankVars, pairVars, histVars>>
    \/ (\E u \in PairEditors : HandleCancelEdit(u))
           /\ UNCHANGED <<catVars, parseVars, searchVars, supplierVars, storeVars, rankVars, pairVars, histVars>>
    \/ (\E u \in Users : HandleConfirmSupply(u, LongServerOutcomes, ReadOutcomes, ConfirmWriteOutcomes))
           /\ UNCHANGED <<catVars, parseVars, searchVars, supplierVars, storeVars, rankVars, pairVars, histVars>>
    \/ (\E u \in Users : HandleCancelSupply(u))
           /\ UNCHANGED <<catVars, parseVars, searchVars, supplierVars, storeVars, rankVars, pairVars, histVars>>
    \/ (\E u \in PairEditors : HandleAddCommand(u))
           /\ UNCHANGED <<catVars, parseVars, searchVars, supplierVars, storeVars, rankVars, pairVars, histVars>>
    \/ (\E u \in PairEditors : HandleAddUnitChoice(u, NoGroups))
           /\ UNCHANGED <<catVars, parseVars, searchVars, supplierVars, storeVars, rankVars, pairVars, histVars>>
    \/ (\E u \in PairEditors : HandleAddGroupChoice(u))
           /\ UNCHANGED <<catVars, parseVars, searchVars, supplierVars, storeVars, rankVars, pairVars, histVars>>
    \/ (\E u \in PairEditors : HandleAddGroupsPage(u))
           /\ UNCHANGED <<catVars, parseVars, searchVars, supplierVars, storeVars, rankVars, pairVars, histVars>>
    \/ (\E u \in PairEditors : HandleAddConfirm(u))
           /\ UNCHANGED <<catVars, parseVars, searchVars, supplierVars, storeVars, rankVars, pairVars, histVars>>
    \/ (\E u \in PairEditors : HandleAddCancel(u))
           /\ UNCHANGED <<catVars, parseVars, searchVars, supplierVars, storeVars, rankVars, pairVars, histVars>>
    \/ (\E u \in PairEditors : HandleIikoStatus(u))
           /\ UNCHANGED <<catVars, parseVars, searchVars, supplierVars, storeVars, rankVars, pairVars, histVars>>
    \/ (\E u \in PairEditors : HandleIikoOrgs(u))
           /\ UNCHANGED <<catVars, parseVars, searchVars, supplierVars, storeVars, rankVars, pairVars, histVars>>

SpecFlowPair == InitFlowPair /\ [][NextFlowPair]_vars

InitSearchMore == SearchInitMore /\ CatIdle /\ ParseIdle /\ SupplierIdle /\ StoreIdle /\ FlowIdle /\ RankIdle /\ PairIdle /\ HistIdle

SpecSearchMore == InitSearchMore /\ [][NextSearch]_vars

InitRank == RankInit /\ CatIdle /\ ParseIdle /\ SearchIdle /\ SupplierIdle /\ StoreIdle /\ FlowIdle /\ PairIdle /\ HistIdle

NextRank ==
    \/ SearchInProductsCall /\ UNCHANGED <<catVars, parseVars, searchVars, supplierVars, storeVars, flowVars, pairVars, histVars>>

SpecRank == InitRank /\ [][NextRank]_vars

InitPair == PairInit /\ CatIdle /\ ParseIdle /\ SearchIdle /\ SupplierIdle /\ StoreIdle /\ FlowIdle /\ RankIdle /\ HistIdle

NextPair ==
    \/ ParseInvoicePdfCall /\ UNCHANGED <<catVars, parseVars, searchVars, supplierVars, storeVars, flowVars, rankVars, histVars>>
    \/ ParseExcelCall /\ UNCHANGED <<catVars, parseVars, searchVars, supplierVars, storeVars, flowVars, rankVars, histVars>>

SpecPair == InitPair /\ [][NextPair]_vars

-----------------------------------------------------------------------------
(* Claims on the catalog exclusion builder *)

\* whether all_items holds the id
HasItem(items, id) == \E i \in DOMAIN items : items[i].id = id

\* the value all_items holds for an id it holds
ItemOf(items, id) == items[CHOOSE i \in DOMAIN items : items[i].id = id]

\* whether the parentId chain of the item with this id reaches `target` in at
\* most `fuel` steps
RECURSIVE ChainReaches(_, _, _, _)
ChainReaches(items, id, target, fuel) ==
    /\ fuel > 0
    /\ HasItem(items, id)
    /\ LET it == ItemOf(items, id)
       IN  /\ it.parentId # <<>>
           /\ \/ it.parentId = target
              \/ ChainReaches(items, it.parentId, target, fuel - 1)

\* C1: the set returned by _build_excluded_ids is closed under descent: every
\* item whose parentId chain reaches an id of the set is in the set, for every
\* snapshot, depth and iteration order.
C1_ClosedUnderDescent ==
    cphase \in {"parsed", "rebuilt"} =>
        \A i \in DOMAIN allItems : \A x \in excluded :
            ChainReaches(allItems, allItems[i].id, x, Len(allItems))
                => allItems[i].id \in excluded

\* C2: _build_excluded_ids depends on the contents of the snapshot only: a
\* second run, on the same items in the same or another order, returns the
\* same set as the run before it.
C2_OrderIndependent ==
    cphase = "rebuilt" => excluded = prevExcluded

\* C3: the product list of a snapshot holds no item of a group type and no
\* item whose id is in the exclusion set computed for that snapshot.
C3_NoGroupNoExcluded ==
    cphase = "parsed" =>
        \A k \in DOMAIN catProducts :
            /\ Lower(catProducts[k].productType) \notin PRODUCT_GROUP_TYPES
            /\ catProducts[k].id \notin excluded

\* C3 witness: a snapshot with an excluded folder, a group and a product under
\* the excluded folder was parsed, and a product was kept
C3_Witness ==
    /\ cphase = "parsed"
    /\ Len(catProducts) >= 1
    /\ \E i \in DOMAIN dtos :
         /\ Strip(OrEmpty(dtos[i].id)) \in excluded
         /\ Lower(Strip(OrEmpty(dtos[i].productType))) \notin PRODUCT_GROUP_TYPES
         /\ Strip(OrEmpty(dtos[i].name)) # <<>>
         /\ ~IsSeed(ItemOf(allItems, Strip(OrEmpty(dtos[i].id))))
    /\ \E i \in DOMAIN dtos :
         Lower(Strip(OrEmpty(dtos[i].productType))) \in PRODUCT_GROUP_TYPES

\* the set the closure loop holds after k scans of the items
RECURSIVE ExcludedAfter(_, _, _)
ExcludedAfter(items, excl, k) ==
    IF k = 0 THEN excl
    ELSE ExcludedAfter(items, ScanItems(items, 1, excl, 0).excluded, k - 1)

\* the ids the k-th scan adds
AddedInScan(items, k) ==
    ScanItems(items, 1, ExcludedAfter(items, ExcludedGroupIds(items), k - 1), 0).added

\* C20: _build_excluded_ids terminates on every snapshot, one with a cycle or
\* a self-loop of parentId links included: it makes at most 20 scans of the
\* items, no more than one per item and one, and stops at the first scan that
\* adds no id.
C20_ScansBounded ==
    cphase \in {"parsed", "rebuilt"} =>
        /\ scans \in 1..20
        /\ scans <= Len(allItems) + 1
        /\ \A k \in 1..(scans - 1) : AddedInScan(allItems, k) > 0
        /\ scans < 20 => AddedInScan(allItems, scans) = 0

\* two items that are each other's parent, one of them excluded by the second
\* scan at the earliest, and an item that is its own parent
C20_Witness ==
    /\ cphase \in {"parsed", "rebuilt"}
    /\ \E i, j \in DOMAIN allItems :
         /\ i # j
         /\ allItems[i].parentId = allItems[j].id
         /\ allItems[j].parentId = allItems[i].id
         /\ {allItems[i].id, allItems[j].id} \subseteq excluded
    /\ \E i \in DOMAIN allItems : allItems[i].parentId = allItems[i].id
    /\ scans >= 2

-----------------------------------------------------------------------------
(* Claims on the table extractors *)

\* the text of the quantity cell of the row consumed last, under the column
\* map it was read with
LastQuantityText == Strip(MapCell(lastRow, lastCol.quantity))

LastWasRow == lastKind \in {"nomap", "notproduct", "skipname", "badqty", "item", "raise"}

\* C4: in a table with a header, the number of line items returned for the
\* table equals the number of rows after the header that have a positive
\* integer in the row-number column and a name without a skip-word.
C4_CountAsStated ==
    (pstatus \in {"running", "returned"} /\ hdrInTable) => itemsInTable = rowsClaimed

\* a table of four columns was read by the PDF adapter: its header was
\* detected, its numbered and named row was counted and made no line item
C4_Witness ==
    /\ adapter = "pdf" /\ pstatus = "returned"
    /\ hdrInTable
    /\ lastRow = RowShort4 /\ lastKind = "notproduct"
    /\ rowsClaimed = 1 /\ itemsInTable = 0

\* "0", "-1", "abc" and the empty cell: quantities that are zero, negative or
\* unparseable
BadQuantityTexts == { <<48>>, <<45, 49>>, <<97, 98, 99>>, <<>> }

\* C5: every line item has a quantity greater than 0; a row whose quantity cell
\* is unparseable, zero or negative makes no line item; the quantity "2,5" is
\* read as 2.5.
C5_QuantityPositive ==
    /\ \A k \in DOMAIN products : products[k].quantity.ok /\ products[k].quantity.n > 0
    /\ (LastWasRow /\ lastCol # NoColumns /\ LastQuantityText \in BadQuantityTexts)
          => lastKind # "item"
    /\ (lastKind = "item" /\ LastQuantityText = <<50, 44, 53>>)
          => products[Len(products)].quantity = Number(25, 1)

\* C6: every line item has a unit price with tax of at least 0.
C6_PriceNonNegative ==
    \A k \in DOMAIN products :
        products[k].price_with_vat.sp # "nan" /\ products[k].price_with_vat.n >= 0

\* C7: a table in which no row qualified as a header contributes no line
\* items, whatever tables precede it.
C7_NoHeaderNoItems ==
    ~hdrInTable => itemsInTable = 0

\* C8: a malformed row never raises out of the extractor.
C8_NeverRaises ==
    pstatus # "raised"

-----------------------------------------------------------------------------
(* Claims on the product search *)

\* the positions of the catalog whose code is the text as it stands
WithCode(cat, code) == {i \in DOMAIN cat : CodeOf(cat[i]) = code}

\* the positions of the catalog whose code, its spaces removed, is the text
WithCleanCode(cat, code) == {i \in DOMAIN cat : CodeClean(cat[i]) = code}

\* C9: for a query that is a numeric code and a catalog in which
\* exactly one item has that code, search_product returns exactly that item,
\* with score 100, and no fuzzy candidate alongside it.
C9_CodeHitAsStated ==
    ( /\ sPhase = "returned" /\ sProvider = "ready"
      /\ StrIsDigit(sQuery)
      /\ Cardinality(WithCode(sCatalog, sQuery)) = 1 )
    => /\ sResult = <<Returned(sCatalog[CHOOSE i \in WithCode(sCatalog, sQuery) : TRUE])>>
       /\ sScores = <<100>>

\* "00375" was searched in a catalog of two or more products of which one has
\* the code, and that one was returned, by the code stage and without a score
C9_Witness ==
    /\ sPhase = "returned" /\ sProvider = "ready"
    /\ sQuery = Q_00375
    /\ Len(sCatalog) >= 2
    /\ Cardinality(WithCleanCode(sCatalog, sQuery)) = 1
    /\ Len(sResult) = 1
    /\ sResult[1].productCode = C_00375
    /\ sStage = "code_exact" /\ sScores = <<NoScore>>

\* C10: every list search_product returns, whichever stage gave it, is in the
\* order of descending score and, among equal scores, of ascending name
\* length. (That two calls with the same query, catalog, limit and min_score
\* return the same list is the case in every model of a function and is not
\* part of the formula.)
C10_RankedOrder ==
    sPhase = "returned" =>
        \A i, j \in DOMAIN sResult :
            i < j => \/ sScores[i] > sScores[j]
                     \/ sScores[i] = sScores[j]
                          /\ Len(sResult[i].name) <= Len(sResult[j].name)

\* C11: search_product with an empty or blank query returns the empty list and
\* raises nothing, whether the client is a stub, cannot reach its server or
\* holds a product list; a search in a catalog without products returns the
\* empty list.
C11_BlankQueryEmptyList ==
    /\ (sPhase \in {"returned", "raised"} /\ Strip(sQuery) = <<>>)
          => (sPhase = "returned" /\ sResult = <<>>)
    /\ (sPhase \in {"returned", "raised"} /\ sProvider \in {"stub", "ready"}
          /\ sCatalog = <<>>)
          => (sPhase = "returned" /\ sResult = <<>>)

-----------------------------------------------------------------------------
(* Claims on the supplier matcher *)

\* the composite score match_supplier gave the k-th supplier
ScoreOfSupplier(k) ==
    SupplierScore(Strip(Lower(mName)), Lower(mSuppliers[k].name), mFuzz[k])

\* C12: match_supplier returns none when the name has fewer than 3 characters
\* or the list is empty; otherwise none when no supplier reaches the threshold
\* 50, and else the supplier of the maximum score, the first in list order
\* among those of the maximum score.
C12_BestSupplier ==
    mPhase = "returned" =>
        LET reach == {k \in DOMAIN mSuppliers : ScoreOfSupplier(k) >= 50}
        IN  IF mName = NoneVal \/ Len(mName) < 3 \/ mSuppliers = <<>>
            THEN mBest = NoSupplier
            ELSE IF reach = {} THEN mBest = NoSupplier
            ELSE \E k \in reach :
                   /\ \A j \in reach : ScoreOfSupplier(j) <= ScoreOfSupplier(k)
                   /\ \A j \in reach : j < k => ScoreOfSupplier(j) < ScoreOfSupplier(k)
                   /\ mBest = [ok |-> TRUE, id |-> mSuppliers[k].id,
                               name |-> mSuppliers[k].name]

-----------------------------------------------------------------------------
(* Claims on the learned-mapping store *)

\* two names differ only in leading, trailing or repeated inner blanks
SameWords(a, b) == SplitWs(a) = SplitWs(b)

\* the i-th entry of the dict m is the last one of its name that carries an id
LastOfItsName(m, i) ==
    \A j \in DOMAIN m : (j > i /\ m[j].value.id # <<>>) => ~SameWords(m[j].key, m[i].key)

\* get_mapping gives the record of r for every name of the same words as k
RoundTrip(k, r) ==
    \A k2 \in KeyVocabulary :
        SameWords(k2, k) =>
            LET g == GetMapping(mapFile, k2, "ok")
            IN  /\ ~g.raised /\ g.result.ok
                /\ g.result.id = r.id /\ g.result.name = r.name
                /\ g.result.productCode =
                       (IF r.productCode # <<>> THEN r.productCode ELSE r.number)

\* C13: after save_mappings({k: r}) with r carrying an id, get_mapping(k2)
\* returns the record of r for every k2 that differs from k only in leading,
\* trailing or repeated inner blanks. A name of blanks only has no key
\* (product_mappings.py:45, 71) and is left aside here.
C13_RoundTrip ==
    stCall.name = "save" =>
        \A i \in DOMAIN stCall.mappings :
            (/\ stCall.mappings[i].value.id # <<>>
             /\ SplitWs(stCall.mappings[i].key) # <<>>
             /\ LastOfItsName(stCall.mappings, i))
                => RoundTrip(stCall.mappings[i].key, stCall.mappings[i].value)

\* a save of "Молоко  3.2%" that leaves by the exception of mkdir, with nothing
\* stored for "Молоко 3.2%"
C13_Witness ==
    /\ stCall.name = "save" /\ stCall.write = "mkdir_error" /\ stRaised
    /\ \E i \in DOMAIN stCall.mappings :
         /\ stCall.mappings[i].key = K_milk_wide
         /\ stCall.mappings[i].value = V_milk
    /\ GetMapping(mapFile, K_milk, "ok").result = NoMapping

\* the entries the file holds for a reader: those of its dict when it is a JSON
\* document, none otherwise
Persisted(f) == IF f.kind = "json" THEN f.data ELSE EmptyDict

\* the entry of key x is the same before and after the last call
EntryKept(x) ==
    /\ x \in DOMAIN Persisted(mapFile)
    /\ Persisted(mapFile)[x] = Persisted(stBefore)[x]

\* C14: save_mappings never discards or alters a persisted entry whose key is
\* not among the keys being saved, in every state of the store, and an argument
\* entry without an id changes nothing; remove_mapping(k) leaves every entry
\* other than that of k unchanged.
C14_OtherEntriesKept ==
    /\ stCall.name = "save" =>
         \A x \in DOMAIN Persisted(stBefore) :
             (\A i \in DOMAIN stCall.mappings :
                  \/ ~SameWords(stCall.mappings[i].key, x)
                  \/ stCall.mappings[i].value.id = <<>>)
                 => EntryKept(x)
    /\ stCall.name = "remove" =>
         \A x \in DOMAIN Persisted(stBefore) :
             ~SameWords(stCall.key, x) => EntryKept(x)

\* the read of the last call failed: exists() raised, the open raised, or the
\* file is not a JSON document
ReadFailed ==
    \/ stCall.read = "exists_error"
    \/ stBefore.kind # "absent" /\ (stCall.read = "oserror" \/ stBefore.kind # "json")

\* C18: a failure to read or write the persisted data is never fatal: on a read
\* failure get_mapping returns None, on a write failure save_mappings and
\* remove_mapping return normally and change nothing, and no exception leaves
\* any of the three.
C18_FailureNotFatal ==
    /\ (stCall.name = "get" /\ SplitWs(stCall.key) # <<>> /\ ReadFailed)
           => (~stRaised /\ stResult = NoMapping)
    /\ (stCall.name \in {"save", "remove"} /\ stCall.write # "ok")
           => (~stRaised /\ mapFile = stBefore)
    /\ stCall.name \in {"get", "save", "remove"} => ~stRaised

-----------------------------------------------------------------------------
(* Claims on the dialog *)

\* the entry the file holds for the name of a line, NoMapping if none
EntryFor(f, line) ==
    IF NormalizeKey(line) \in DOMAIN Persisted(f)
    THEN Found(Persisted(f)[NormalizeKey(line)])
    ELSE NoMapping

\* the ids of the catalog snapshot a handler of this step fetches
SnapshotIds == ValidIds(ProductsOf(fProvider, fCatalog))

\* the step is a run of handle_document that got as far as the reconciliation
DocumentStep == fLast'.handler = "document" /\ fLast'.lines # <<>>

\* the run of handle_document of this step has left its lines and their
\* matches pending in user_data
LeftPending ==
    /\ fLast'.outcome = "pending"
    /\ fData'[fLast'.user].products = fLast'.lines
    /\ fData'[fLast'.user].matches = fLast'.matches
    /\ fData'[fLast'.user].step = "products"

\* C15: when handle_document processes a line whose stored mapping names an id
\* absent from the catalog snapshot of that run, the store holds no entry for
\* that key afterwards and the match of the line is the first result of
\* search_product, or none; a match taken from the store has an id that is
\* in the snapshot. The matches are those user_data holds after the run; a
\* run that an exception ended leaves user_data as it was.
C15_SelfHealing ==
    [][DocumentStep =>
         LET d == fLast'.lines
             m == fLast'.matches
             stale(i) == /\ EntryFor(fStore, d[i]).ok
                         /\ EntryFor(fStore, d[i]).id \notin SnapshotIds
         IN  /\ \A i \in DOMAIN d :
                   stale(i) => /\ ~EntryFor(fStore', d[i]).ok
                               /\ NormalizeKey(d[i]) \in fLast'.removed
             /\ IF fLast'.outcome # "pending" THEN fData' = fData
                ELSE /\ LeftPending
                     /\ \A i \in DOMAIN d :
                           /\ stale(i)
                                 => /\ i \in fLast'.searched
                                    /\ m[i] = fLast'.found[i]
                                    /\ m[i] \in ProductsOf(fProvider, fCatalog) \cup {NoMatch}
                           /\ i \notin fLast'.searched
                                 => /\ m[i].id \in SnapshotIds
                                    /\ m[i] = MatchFromSaved(EntryFor(fStore, d[i]))
    ]_vars

\* a document came whose line has a stored mapping of a product that has left
\* the catalog; remove_mapping was called for the key and the run ended at
\* the `except Exception` of the handler: the file holds the mapping still
C15_Witness ==
    /\ fLast.handler = "document" /\ fLast.user = "u1"
    /\ fLast.outcome = "error"
    /\ fLast.lines = <<K_milk>>
    /\ fLast.removed = {K_milk}
    /\ EntryFor(fStore, K_milk).ok
    /\ EntryFor(fStore, K_milk).id \notin ValidIds(ProductsOf(fProvider, fCatalog))

\* the step is a run of handle_confirm_supply of user u
ConfirmStep(u) == fLast'.handler = "confirm" /\ fLast'.user = u

\* a line of the pending supply of u has a chosen id that is not an id of the
\* products get_products gives now
HasInvalidId(u) ==
    \E i \in DOMAIN fData[u].products :
        /\ fData[u].matches[i].id # <<>>
        /\ fData[u].matches[i].id \notin SnapshotIds

\* the confirmation was refused with ProductGroupError, nothing went to the
\* server, nothing was saved and user_data is as it was
RejectedUntouched ==
    /\ fLast'.outcome = "group_error"
    /\ fLast'.outcome \notin PostedOutcomes
    /\ fStore' = fStore
    /\ fData' = fData

\* the confirmation of u gets as far as the test of the ids of create_supply:
\* products and a date are pending, the bot is outside the read-only mode,
\* every line has an id, the client is configured, and every request made
\* before the test was answered
ReachesIdCheck(u) ==
    /\ fData[u].products # <<>> /\ fData[u].date /\ ~fReadOnly
    /\ \A i \in DOMAIN fData[u].products : fData[u].matches[i].id # <<>>
    /\ fProvider = "ready"
    /\ fLast'.server # "unanswered"

\* user_data of u after the step is what the pops of a confirmation leave
SessionCleared(u) == fData' = [fData EXCEPT ![u] = SupplyPopped(fData[u])]

\* C17, as stated: confirming a supply in which the chosen id of any line is
\* not a purchasable item of the current catalog is rejected with
\* ProductGroupError before a document is posted, no mapping is saved and the
\* pending products, matches, date and store are unchanged.
C17_RejectedAsStated ==
    [][\A u \in Users :
         (ConfirmStep(u) /\ HasInvalidId(u)) => RejectedUntouched
    ]_vars

\* C17, amended: a confirmation of a supply in which the chosen id of a line
\* is not a purchasable item of the current catalog posts no document and
\* saves no mapping. It is rejected with ProductGroupError exactly when it
\* gets as far as the test of the ids of create_supply; before that it ends
\* at the check of the handler or at the request of create_supply that
\* failed. The pending products, matches, date and store are unchanged,
\* except in read-only mode with a date entered, where the pending supply is
\* cleared.
C17_RejectedAmended ==
    [][\A u \in Users :
         (ConfirmStep(u) /\ HasInvalidId(u)) =>
            /\ fLast'.outcome \notin PostedOutcomes
            /\ fLast'.outcome \notin SupplyCreatedOutcomes
            /\ fStore' = fStore
            /\ (fLast'.outcome = "group_error") = ReachesIdCheck(u)
            /\ IF fReadOnly /\ fData[u].date
               THEN SessionCleared(u) /\ fLast'.outcome = "read_only"
               ELSE fData' = fData
            /\ (~fReadOnly /\ fData[u].date /\ ~ReachesIdCheck(u))
                  => fLast'.outcome \in {"not_found", "error"}
    ]_vars

\* a confirmation was refused with ProductGroupError: the product the user
\* picked for the line has left the catalog; the line, its match, the date and
\* the store are still pending
C17_Witness ==
    /\ fLast.handler = "confirm" /\ fLast.user = "u1"
    /\ fLast.outcome = "group_error" /\ fLast.server = "ok"
    /\ ~fReadOnly
    /\ fData["u1"].products = <<K_milk>>
    /\ fData["u1"].date /\ fData["u1"].store
    /\ fData["u1"].matches[1] = F_milk
    /\ ~EntryFor(fStore, K_milk).ok
    /\ F_milk \notin fCatalog

\* the step is a run of handle_confirm_supply whose create_supply returned a
\* supply
CreatedStep == fLast'.handler = "confirm" /\ fLast'.outcome \in SupplyCreatedOutcomes

\* the entry the file holds under the key k, NoMapping if none
EntryOfKey(f, k) ==
    IF k \in DOMAIN Persisted(f) THEN Found(Persisted(f)[k]) ELSE NoMapping

\* line i of the lines d is the last one of its normalized text
LastOfItsKey(d, i) ==
    \A j \in DOMAIN d : j > i => NormalizeKey(d[j]) # NormalizeKey(d[i])

\* after a confirmation that created the supply, the file holds for the lines
\* chosen by the test `which` the item the line was matched to
ConfirmStores(which(_, _)) ==
    CreatedStep =>
        LET u == fLast'.user
            d == fData[u].products
        IN  \A i \in DOMAIN d :
              which(d, i) =>
                  /\ EntryFor(fStore', d[i]).ok
                  /\ MatchFromSaved(EntryFor(fStore', d[i])) = fData[u].matches[i]

\* a line whose key has an entry with an id of the snapshot takes the item of
\* the entry, and search_product is not called for it
DocumentUsesStore ==
    DocumentStep =>
        LET d == fLast'.lines
        IN  \A i \in DOMAIN d :
              (EntryFor(fStore, d[i]).ok /\ EntryFor(fStore, d[i]).id \in SnapshotIds)
                  => /\ EntryFor(fStore', d[i]) = EntryFor(fStore, d[i])
                     /\ fLast'.outcome = "pending"
                           => /\ LeftPending
                              /\ i \notin fLast'.searched
                              /\ fLast'.matches[i] = MatchFromSaved(EntryFor(fStore, d[i]))

\* the entry of a key changes only when a confirmation with a line of that
\* key creates a supply, or when a document with a line of that key comes
\* while the item of the entry is not in the catalog
EntryLasts ==
    \A k \in (DOMAIN Persisted(fStore)) \cup (DOMAIN Persisted(fStore')) :
        \/ EntryOfKey(fStore', k) = EntryOfKey(fStore, k)
        \/ /\ CreatedStep
           /\ \E i \in DOMAIN fData[fLast'.user].products :
                  NormalizeKey(fData[fLast'.user].products[i]) = k
        \/ /\ DocumentStep
           /\ k \in fLast'.removed
           /\ EntryOfKey(fStore, k).id \notin SnapshotIds
           /\ ~EntryOfKey(fStore', k).ok

AnyLine(d, i) == TRUE

\* C16: after a confirmed supply in which line text L is matched to item X,
\* every later document with a line of the normalized text of L is matched to
\* X without a call of search_product, as long as X stays in the catalog and
\* no later confirmation overwrites the entry; the latest confirmation of a
\* key wins.
C16_Learned ==
    [][ConfirmStores(AnyLine) /\ DocumentUsesStore /\ EntryLasts]_vars

\* the supply of a document of three lines of one key was created and
\* save_mappings raised: the file holds no entry for the key
C16_Witness ==
    /\ fLast.handler = "confirm" /\ fLast.user = "u1"
    /\ fLast.outcome = "created_save_failed"
    /\ fData["u1"].products = <<L_tea, L_tea_wide, L_tea>>
    /\ fData["u1"].matches = <<F_milk, F_cream, F_milk>>
    /\ F_cream \in fCatalog
    /\ ~EntryFor(fStore, L_tea).ok

\* the keys of the lines d
KeysOf(d) == {NormalizeKey(d[i]) : i \in DOMAIN d}

\* the keys the handler of this step may write: those of the document that
\* came, or those of the supply that was created
KeysWritten ==
    IF DocumentStep THEN KeysOf(fLast'.lines)
    ELSE IF CreatedStep THEN KeysOf(fData[fLast'.user].products)
    ELSE {}

\* C19: the writers of the store are serialized: when the workflows of two
\* users run at the same time and each one writes (save_mappings or
\* remove_mapping) under keys of its own, the file reflects the writes of
\* both; no interleaving of the handlers loses an update.
C19_WritersSerialized ==
    [][/\ \A k \in ((DOMAIN Persisted(fStore)) \cup (DOMAIN Persisted(fStore'))) \ KeysWritten :
             EntryOfKey(fStore', k) = EntryOfKey(fStore, k)
       /\ ConfirmStores(LastOfItsKey)
       /\ DocumentStep => \A k \in fLast'.removed : ~EntryOfKey(fStore', k).ok
    ]_vars

\* the supply of the first user was created and its mapping saved after the
\* second user had closed a session: the file holds the entry of the first
\* user and none for the line of the second
C19_Witness ==
    /\ fLast.handler = "confirm" /\ fLast.user = "u1" /\ fLast.outcome = "created"
    /\ MatchFromSaved(EntryFor(fStore, L_tea)) = F_milk
    /\ ~EntryFor(fStore, K_cheese).ok
    /\ fData["u2"] = NoPending
    /\ fData["u1"] = NoPending

-----------------------------------------------------------------------------
(* Claims on the stages of the product search *)

\* the numeric token of a normalized query: its first blank-separated part of
\* digits, 3 or more, else the query without its spaces when it is digits
\* only, else none
NumericToken(q) ==
    LET nums == SelectSeq(SplitWs(q), LAMBDA w : StrIsDigit(w) /\ Len(w) >= 3)
    IN  IF nums # <<>> THEN Head(nums)
        ELSE IF StrIsDigit(RemoveCh(q, 32)) THEN RemoveCh(q, 32)
        ELSE NoneVal

\* the returned dicts of the first `limit` products of a list
ReturnedList(prods, limit) ==
    [i \in DOMAIN Take(prods, limit) |-> Returned(Match(prods[i], NoScore))]

\* C21: whenever the normalized query holds a numeric token of 3 or more
\* digits, or is numeric as a whole, search_product returns the products (the
\* first `limit` of them) whose code without spaces is the token; when no code
\* is the token, it returns the products whose code contains the token, for a
\* token inside a longer query as for a query that is a number.
C21_CodeStage ==
    ( /\ sPhase = "returned" /\ sProvider = "ready"
      /\ Strip(sQuery) # <<>>
      /\ NumericToken(QueryLower) # NoneVal )
    => LET token == NumericToken(QueryLower)
           equal == CodeMatches(sCatalog, token)
           inside == CodePartial(sCatalog, token)
       IN  IF equal # <<>> THEN sResult = ReturnedList(equal, sLimit)
           ELSE inside # <<>> => sResult = ReturnedList(inside, sLimit)

\* the same for the queries that are numbers as a whole
C21_WhollyNumeric ==
    ( /\ sPhase = "returned" /\ sProvider = "ready"
      /\ Strip(sQuery) # <<>>
      /\ StrIsDigit(RemoveCh(QueryLower, 32)) )
    => LET token == NumericToken(QueryLower)
           equal == CodeMatches(sCatalog, token)
           inside == CodePartial(sCatalog, token)
       IN  IF equal # <<>> THEN sResult = ReturnedList(equal, sLimit)
           ELSE inside # <<>> => sResult = ReturnedList(inside, sLimit)

\* the stages whose list comes from _search_in_products
FuzzyStages == {"fuzzy", "two_words", "longest_word", "fry_phrase"}

\* the text of the first relaxation, NoneVal when it is not tried
TwoWordsText(q) ==
    IF RelaxWords(q) # <<>> /\ ShortQuery(RelaxWords(q)) # q
    THEN ShortQuery(RelaxWords(q)) ELSE NoneVal

\* the text of the second relaxation, NoneVal when it is not tried
LongestText(q) ==
    IF RelaxWords(q) # <<>> /\ Len(LongestWord(RelaxWords(q))) >= 4
    THEN LongestWord(RelaxWords(q)) ELSE NoneVal

\* the texts the stages before the stage `stage` search for
EarlierTexts(q, stage) ==
    (IF stage \in {"two_words", "longest_word", "fry_phrase", "none"} THEN {q} ELSE {})
    \cup (IF stage \in {"longest_word", "fry_phrase", "none"} THEN {TwoWordsText(q)} ELSE {})
    \cup (IF stage \in {"fry_phrase", "none"} THEN {LongestText(q)} ELSE {})

\* a step of the search keeps the order of the stages, and a step that
\* returns gives the list of the stage it is in
StageStep ==
    /\ sPhase' = "fuzzy" => sPhase = "called"
    /\ sPhase' = "two" => (sPhase = "fuzzy" /\ QueryLower \in sTried')
    /\ sPhase' = "longest" => sPhase = "two"
    /\ sPhase' = "fry" => sPhase = "longest"
    /\ sPhase' = "returned" =>
          \/ sPhase = "called" /\ sStage' \in {"stub", "empty", "code_exact", "code_partial"}
          \/ sPhase = "fuzzy" /\ sStage' = "fuzzy"
          \/ sPhase = "two" /\ sStage' = "two_words"
          \/ sPhase = "longest" /\ sStage' = "longest_word"
          \/ sPhase = "fry" /\ sStage' \in {"fry_phrase", "none"}

\* the list returned is the list of a stage that gave one, and every stage
\* before it was tried and gave none
FirstHitWins ==
    (sPhase = "returned" /\ sProvider = "ready" /\ Strip(sQuery) # <<>>) =>
        /\ sStage \in {"code_exact", "code_partial"} \cup FuzzyStages \cup {"none"}
        /\ (sStage = "none") = (sResult = <<>>)
        /\ sStage \in FuzzyStages \cup {"none"} =>
              /\ CodeStage(sCatalog, QueryLower, sLimit).stage = "none"
              /\ EarlierTexts(QueryLower, sStage) \ {NoneVal} \subseteq sTried
        /\ sStage \in {"code_exact", "code_partial"} => sTried = {}
        /\ sStage \in FuzzyStages =>
              LET text == CASE sStage = "fuzzy" -> QueryLower
                            [] sStage = "two_words" -> TwoWordsText(QueryLower)
                            [] sStage = "longest_word" -> LongestText(QueryLower)
                            [] OTHER -> S_maslo_frityura
              IN  text # NoneVal /\ text \notin sTried

\* C22: search_product tries its stages in the order code match, fuzzy on the
\* whole query, fuzzy on the first two significant words, fuzzy on the longest
\* word of 4 characters or more, the fixed phrase, and returns the list of the
\* first stage that gives one; a relaxation is tried only when every stage
\* before it gave the empty list.
C22_StageOrder == [][StageStep]_vars /\ []FirstHitWins

\* "масло для фритюрницы" found nothing as a whole, nothing by its first two
\* words and nothing by its longest word; the fixed phrase found the product
C22_Witness ==
    /\ sPhase = "returned" /\ sQuery = Q_oil
    /\ sStage = "fry_phrase"
    /\ sResult # <<>>
    /\ {QueryLower, TwoWordsText(QueryLower), LongestText(QueryLower)} \subseteq sTried
    /\ Cardinality(sTried) = 3

-----------------------------------------------------------------------------
(* Claims on _search_in_products *)

\* C23: the list the fuzzy stage returns has at most `limit` entries, each
\* with a score of min_score or more; it is the first `limit` entries of the
\* ranked list of candidates with the entries under min_score then taken out,
\* so that no candidate ranked after position `limit` is returned.
C23_CutThenFilter ==
    rPhase = "returned" =>
        /\ Len(rResult) <= rLimit
        /\ \A i \in DOMAIN rResult : rResult[i].score >= rMinScore
        /\ rResult = SelectSeq(SubSeq(rRanked, 1, IF Len(rRanked) < rLimit
                                                   THEN Len(rRanked) ELSE rLimit),
                               LAMBDA m : m.score >= rMinScore)
        /\ \A k \in DOMAIN rRanked :
              k > rLimit => \A i \in DOMAIN rResult : rResult[i] # rRanked[k]

\* two candidates were ranked, both with a score of min_score or more, and
\* the limit of 1 kept the first of them only
C23_Witness ==
    /\ rPhase = "returned" /\ rLimit = 1
    /\ Len(rRanked) = 2
    /\ rRanked[2].score >= rMinScore
    /\ rResult = <<rRanked[1]>>

\* a significant word of the query is in the name, as it stands or by its
\* first 5 characters
WordInName(w, name) ==
    \/ Contains(Lower(name), w)
    \/ Len(w) >= 5 /\ Contains(Lower(name), SubSeq(w, 1, 5))

\* the significant words of the query that are in the name
WordsInName(q, name) ==
    Cardinality({i \in DOMAIN TokenizeQuery(q) : WordInName(TokenizeQuery(q)[i], name)})

\* C24: every candidate the fuzzy stage returns has a name with at least one
\* significant word of the query in it (or the first 5 characters of the
\* word), and the significant words found in the name are at least
\* min(2, wordCount) for a query of two or more significant words and at least
\* 1 otherwise; also when the score was set to 100 by the code or raised to
\* 95 by the name.
C24_KeywordGate ==
    rPhase = "returned" =>
        \A i \in DOMAIN rResult :
            LET n == Len(TokenizeQuery(rQuery))
            IN  /\ WordsInName(rQuery, rResult[i].name) >= 1
                /\ WordsInName(rQuery, rResult[i].name) >= (IF n >= 2 THEN 2 ELSE 1)

\* "abc12" is the code of two products; the one without the word in its name
\* is not returned, the one with the word is, with the score 100
C24_Witness ==
    /\ rPhase = "returned" /\ rQuery = R_abc12
    /\ rProducts = <<P_abc_code, P_abc_named>>
    /\ rFuzz = <<70, 30>>
    /\ Len(rResult) = 1
    /\ rResult[1].id = P_abc_named.id /\ rResult[1].score = 100

-----------------------------------------------------------------------------
(* Claims on queries without a significant word *)

\* the query is not empty, is not a number, and each of its tokens is shorter
\* than 3 characters or is a skip word
NoSignificantWord(q) ==
    /\ q # <<>>
    /\ ~StrIsDigit(RemoveCh(q, 32))
    /\ \A i \in DOMAIN SplitOn(q, TokenSeparators, <<>>) :
          LET w == SplitOn(q, TokenSeparators, <<>>)[i]
          IN  Len(w) < 3 \/ w \in SKIP_WORDS

\* C29: for a query that is not empty and not a number and whose tokens are
\* all shorter than 3 characters or skip words, search_product returns the
\* empty list whatever the catalog holds, a product whose name or code is the
\* query included: neither the overrides of the score nor a relaxation gives a
\* candidate.
C29_NoSignificantWord ==
    ( /\ sPhase = "returned" /\ sProvider = "ready"
      /\ NoSignificantWord(QueryLower) )
    => sResult = <<>> /\ sStage = "none"

\* "на-по" was searched in a catalog of two products, one with the code
\* "на-по" and one with the name "На с": the whole query was searched for,
\* its one part of 4 characters or more being the query again, and nothing was
\* returned
C29_Witness ==
    /\ sPhase = "returned" /\ sResult = <<>>
    /\ sQuery = Q_napo
    /\ sCatalog = <<P_napo, P_nas>>
    /\ sTried = {Q_napo}

-----------------------------------------------------------------------------
(* Claims on the two adapters *)

\* C25: for the same sequence of rows parse_invoice_pdf and parse_excel accept
\* the same rows and produce the same sequence of line items (name, unit,
\* quantity, price with tax, code).
C25_SameItems ==
    (xPdf.done /\ xExcel.done) =>
        /\ xPdf.raised = xExcel.raised
        /\ xPdf.products = xExcel.products

-----------------------------------------------------------------------------
(* Claims on the conditions of a confirmation *)

\* the outcomes of a run of handle_confirm_supply that called create_supply
CreateSupplyOutcomes ==
    {"error", "group_error", "post_failed", "created", "created_save_failed"}

\* user_data of u holds pending products and a date, and every line has an id
ReadyToCreate(u) ==
    /\ fData[u].products # <<>>
    /\ fData[u].date
    /\ \A i \in DOMAIN fData[u].products : fData[u].matches[i].id # <<>>

\* the run called create_supply only from a state with products, a date,
\* read-only mode off and an id for every line
CalledWhenReady(u) ==
    fLast'.outcome \in CreateSupplyOutcomes => (ReadyToCreate(u) /\ ~fReadOnly)

\* C26, as stated: handle_confirm_supply calls create_supply only in a session
\* state where pending products exist, a date has been entered, read-only mode
\* is off and every line item has a non-empty matched id; in read-only mode it
\* creates no supply, saves no learned mapping and clears the pending session.
C26_GuardedAsStated ==
    [][\A u \in Users :
         ConfirmStep(u) =>
            /\ CalledWhenReady(u)
            /\ fReadOnly =>
                  /\ fLast'.outcome \notin CreateSupplyOutcomes
                  /\ fStore' = fStore
                  /\ SessionCleared(u)
    ]_vars

\* C26, amended: the same, where in read-only mode the pending session is
\* cleared by a confirmation made with pending products and a date entered,
\* and is left as it is by one made without them.
C26_GuardedAmended ==
    [][\A u \in Users :
         ConfirmStep(u) =>
            /\ CalledWhenReady(u)
            /\ fReadOnly =>
                  /\ fLast'.outcome \notin CreateSupplyOutcomes
                  /\ fStore' = fStore
                  /\ IF fData[u].products # <<>> /\ fData[u].date
                     THEN SessionCleared(u)
                     ELSE fData' = fData
    ]_vars

\* a confirmation in read-only mode has cleared the pending supply of a user
\* whose document left a mapping of the file in use; the file is as it was
C26_Witness ==
    /\ fLast.handler = "confirm" /\ fLast.user = "u1"
    /\ fLast.outcome = "read_only"
    /\ fReadOnly
    /\ fData["u1"] = NoPending
    /\ EntryFor(fStore, K_milk).ok

-----------------------------------------------------------------------------
(* Claims on confirmations after the end of a session *)

\* C27: after handle_confirm_supply has created a supply, or after
\* handle_cancel_supply has run, a further confirmation of the user creates no
\* supply and saves no mapping until a new document has been processed; and
\* mappings are saved by a confirmation only after create_supply has returned
\* a supply.
C27_NoSecondSupply ==
    /\ [][\A u \in Users :
            (ConfirmStep(u) /\ fDone[u]) =>
                /\ fLast'.outcome \notin SupplyCreatedOutcomes
                /\ fStore' = fStore
       ]_vars
    /\ [][(fLast'.handler = "confirm" /\ fStore' # fStore) =>
              fLast'.outcome = "created"
       ]_vars

-----------------------------------------------------------------------------
(* Claims on documents processed without a product list *)

\* C28: a document processed while get_products gives no product (the client
\* is not configured, or the list of the server is empty) leaves the file of
\* mappings as it is: handle_document removes a mapping only when a snapshot
\* that is not empty lacks its id.
C28_EmptySnapshotKeepsStore ==
    [][DocumentStep =>
          /\ SnapshotIds = {} => fStore' = fStore
          /\ fLast'.removed # {} => SnapshotIds # {}
    ]_vars

-----------------------------------------------------------------------------
(* Claims on removals while several workflows run *)

\* the ids of the products the catalog holds now
CatalogIds == {p.id : p \in fCatalog}

\* C30: with the workflows of several users under way, an entry leaves the
\* file of mappings only in a run of handle_document and only if its id is
\* not in the catalog at that moment; an entry another workflow has saved for
\* a product the catalog holds is never deleted on an older snapshot.
C30_RemovedOnlyIfAbsent ==
    [][\A k \in DOMAIN Persisted(fStore) :
          ~EntryOfKey(fStore', k).ok =>
              /\ DocumentStep
              /\ fCatalog' = fCatalog
              /\ EntryOfKey(fStore, k).id \notin CatalogIds
    ]_vars

\* the supply of the second user was created and its mapping saved while the
\* document of the first user, matched to a product the catalog holds, is
\* pending: the file holds the entry of the second user and none for the
\* line of the first
C30_Witness ==
    /\ fLast.handler = "confirm" /\ fLast.user = "u2" /\ fLast.outcome = "created"
    /\ EntryFor(fStore, K_cheese).ok
    /\ ~EntryFor(fStore, L_tea).ok
    /\ fData["u1"].products = <<L_tea_wide>>
    /\ fData["u1"].matches = <<F_milk>>
    /\ F_milk \in fCatalog

=============================================================================
